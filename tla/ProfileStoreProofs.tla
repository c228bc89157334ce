-------------------------- MODULE ProfileStoreProofs --------------------------
(***************************************************************************)
(* What the learner's ledger and its cursor keep, proved for any number of *)
(* commands, accounts and refused rows.                                    *)
(***************************************************************************)
EXTENDS ProfileStore, PositionsProofs

vars == <<storeVars, auth>>

Places == 1..Len(ReadLedger)

Recorded(r) == pc[r] \notin {"idle", "acked"}

\* Every line holds a row or what is left of some, and a file without its
\* last newline has a last line.
Lined ==
    /\ \A i \in 1..Len(ledger) : ledger[i].of # <<>>
    /\ ~ended => ledger # <<>>

\* A command has a snapshot of the ledger only while it pushes, is never
\* beyond its end, and says nothing before it is done.
ProgressOf(c) ==
    /\ ~Pushing(c) => rows[c] = <<>> /\ start[c] = 0 /\ synced[c] = 0
    /\ pc[c] = "read" => start[c] = 0 /\ synced[c] = 0
    /\ Reached(c) <= Len(rows[c])
    /\ pc[c] \notin {"saving", "writing", "over"} => answer[c] = "none"
Progress == \A c \in Commands : ProgressOf(c)

\* A row's place: what is in the ledger, in a snapshot or on the server was
\* recorded; a row stands in the ledger and in a snapshot once, and at the
\* same place in both.
Placed ==
    /\ \A i \in Places : Recorded(ReadLedger[i])
    /\ \A r \in Commands : server[r] > 0 => Recorded(r)
    /\ \A i, j \in Places : ReadLedger[i] = ReadLedger[j] => i = j
    /\ \A c \in Commands :
        /\ \A i \in 1..Len(rows[c]) : Recorded(rows[c][i])
        /\ \A i, j \in 1..Len(rows[c]) : rows[c][i] = rows[c][j] => i = j
        /\ \A i \in Places, j \in 1..Len(rows[c]) :
              ReadLedger[i] = rows[c][j] => i = j

\* As long as no row lost its line: the cursor counts pushed rows, a
\* snapshot is the beginning of the ledger, and holds the row of its command
\* if the ledger does.
CursorCounted ==
    cursor # Unreadable =>
        /\ cursor <= Len(ReadLedger)
        /\ \A i \in 1..cursor : Pushed(ReadLedger[i])
SnapshotCounted(c) ==
    /\ Len(rows[c]) <= Len(ReadLedger)
    /\ \A i \in 1..Len(rows[c]) : rows[c][i] = ReadLedger[i]
    /\ \A i \in 1..Reached(c) : Pushed(rows[c][i])
    /\ Pushing(c) => \A i \in Places : ReadLedger[i] = c =>
           \E j \in 1..Len(rows[c]) : rows[c][j] = c
Counted == Stays => CursorCounted /\ \A c \in Commands : SnapshotCounted(c)

\* Nothing beyond place n is on the server.
Unpushed(c, n) ==
    /\ \A i \in Places : i > n => ~Pushed(ReadLedger[i])
    /\ \A i \in 1..Len(rows[c]) : i > n => ~Pushed(rows[c][i])

\* As long as nothing worse than a lost line happened: one command pushes at
\* a time, nothing beyond where it stands was pushed, and nothing beyond the
\* cursor while none of them stands anywhere.
Calm == disturbed \subseteq {"cut row"}
OnePushes == \A c, d \in Commands : Pushing(c) /\ Pushing(d) => c = d
CursorAhead ==
    (\A c \in Commands : Pushing(c) => pc[c] = "read") =>
        /\ cursor # Unreadable
        /\ \A i \in Places : i > cursor => ~Pushed(ReadLedger[i])
CommandAhead(c) ==
    /\ pc[c] = "read" => Unpushed(c, Smaller(cursor, Len(rows[c])))
    /\ Pushing(c) /\ pc[c] # "read" => Unpushed(c, Reached(c))
Alone == Calm => OnePushes /\ CursorAhead /\ \A c \in Commands : CommandAhead(c)

IInv ==
    /\ TypeOK /\ Lined /\ Progress /\ Placed
    /\ Counted /\ PushedInOrder /\ OkMeansPushed
    /\ Alone /\ OnceUnlessDisturbed

-----------------------------------------------------------------------------
(* The ledger as rows *)

\* Lines that hold something are read as rows, and one more line is one more
\* row, or none.
FullLines == {line \in Lines : line.of # <<>>}

LEMMA RowsOfAppend ==
    ASSUME NEW L \in Seq(FullLines), NEW x \in FullLines
    PROVE  /\ RowsOf(L) \in Seq(Commands)
           /\ IsRow(x) => RowsOf(Append(L, x)) = Append(RowsOf(L), x.of[1])
           /\ ~IsRow(x) => RowsOf(Append(L, x)) = RowsOf(L)
<1> DEFINE Firsts(s) == [i \in 1..Len(s) |-> s[i].of[1]]
<1>1. \A line \in FullLines : line.of[1] \in Commands
  <2> TAKE line \in FullLines
  <2>1. line.of \in Seq(Commands) /\ line.of # <<>>
    BY DEF FullLines, Lines
  <2>2. Len(line.of) \in Nat \ {0}
    BY <2>1, EmptySeq
  <2> QED
    BY <2>1, <2>2, ElementOfSeq
<1>2. ASSUME NEW s \in Seq(FullLines)
      PROVE  Firsts(s) \in Seq(Commands) /\ Len(Firsts(s)) = Len(s)
  <2>1. \A i \in 1..Len(s) : s[i].of[1] \in Commands
    BY <1>1, ElementOfSeq
  <2> QED
    BY <2>1
<1>3. RowLines(L) \in SUBSET (1..Len(Firsts(L)))
  BY <1>2 DEF RowLines
<1>4. RowsOf(L) \in Seq(Commands)
  BY <1>2, <1>3, PickedType DEF RowsOf
<1> DEFINE M == Append(L, x)
<1>5. M \in Seq(FullLines) /\ Len(M) = Len(L) + 1 /\ Len(L) \in Nat
      /\ \A i \in 1..Len(L) : M[i] = L[i]
      /\ M[Len(L) + 1] = x
  OBVIOUS
<1>6. Firsts(M) = Append(Firsts(L), x.of[1])
  <2>1. Firsts(M) \in Seq(Commands) /\ Append(Firsts(L), x.of[1]) \in Seq(Commands)
    BY <1>1, <1>2, <1>5
  <2>2. Len(Append(Firsts(L), x.of[1])) = Len(Firsts(M))
    BY <1>1, <1>2, <1>5
  <2>3. \A i \in 1..Len(Firsts(M)) : Firsts(M)[i] = Append(Firsts(L), x.of[1])[i]
    BY <1>1, <1>2, <1>5
  <2> QED
    BY <2>1, <2>2, <2>3, SeqEqual
<1>7. RowLines(M) = IF IsRow(x) THEN RowLines(L) \cup {Len(L) + 1} ELSE RowLines(L)
  BY <1>5 DEF RowLines
<1>8. /\ Picked(Firsts(M), RowLines(L)) = RowsOf(L)
      /\ Picked(Firsts(M), RowLines(L) \cup {Len(L) + 1}) = Append(RowsOf(L), x.of[1])
  <2>1. Firsts(L) \in Seq(Commands) /\ x.of[1] \in Commands /\ Len(Firsts(L)) = Len(L)
    BY <1>1, <1>2
  <2>2. RowsOf(L) = Picked(Firsts(L), RowLines(L))
    BY Zenon DEF RowsOf
  <2> HIDE DEF Firsts, M
  <2>3. ASSUME NEW f \in Seq(Commands), NEW y \in Commands, NEW S \in SUBSET (1..Len(f))
        PROVE  /\ Picked(Append(f, y), S) = Picked(f, S)
               /\ Picked(Append(f, y), S \cup {Len(f) + 1}) = Append(Picked(f, S), y)
    BY PickedAppend
  <2>4. /\ Picked(Append(Firsts(L), x.of[1]), RowLines(L)) = Picked(Firsts(L), RowLines(L))
        /\ Picked(Append(Firsts(L), x.of[1]), RowLines(L) \cup {Len(Firsts(L)) + 1})
              = Append(Picked(Firsts(L), RowLines(L)), x.of[1])
    BY <1>3, <2>1, <2>3, Zenon
  <2>5. /\ Picked(Firsts(M), RowLines(L)) = Picked(Firsts(L), RowLines(L))
        /\ Picked(Firsts(M), RowLines(L) \cup {Len(L) + 1})
              = Append(Picked(Firsts(L), RowLines(L)), x.of[1])
    BY <1>6, <2>1, <2>4, Zenon
  <2> QED
    BY <2>2, <2>5, Zenon
<1> QED
  BY <1>4, <1>7, <1>8 DEF RowsOf

\* The ledger's lines hold something, so what is read is a list of rows.
LEMMA LedgerType ==
    ASSUME TypeOK, Lined
    PROVE  ledger \in Seq(FullLines)
<1>1. ledger \in Seq(Lines)
  BY DEF TypeOK
<1>2. \A i \in 1..Len(ledger) : ledger[i] \in FullLines
  BY <1>1, ElementOfSeq DEF Lined, FullLines
<1> QED
  BY <1>1, <1>2

LEMMA RowsType ==
    ASSUME TypeOK, Lined
    PROVE  ReadLedger \in Seq(Commands)
<1>1. ledger \in Seq(FullLines)
  BY LedgerType
<1>2. CASE ledger = <<>>
  <2>1. RowLines(ledger) = {}
    BY <1>2 DEF RowLines
  <2>2. RowsOf(ledger) = <<>>
    BY <2>1, FS_EmptySet DEF RowsOf, Picked
  <2> QED
    BY <2>2 DEF ReadLedger
<1>3. CASE ledger # <<>>
  <2>1. PICK x \in FullLines : TRUE
    BY <1>1, <1>3, HeadTailProperties
  <2> QED
    BY <1>1, <2>1, RowsOfAppend DEF ReadLedger
<1> QED
  BY <1>2, <1>3

\* A sequence that is not empty is its front and its last entry.
LEMMA FrontAndLast ==
    ASSUME NEW T, NEW s \in Seq(T), s # <<>>
    PROVE  /\ Front(s) \in Seq(T)
           /\ Last(s) \in T
           /\ Append(Front(s), Last(s)) = s
<1> DEFINE n == Len(s)
           f == SubSeq(s, 1, n - 1)
<1>1. n \in Nat \ {0} /\ n \in Int /\ n - 1 \in Int /\ 1 \in Int
  BY EmptySeq
<1>2. \A i \in 1..n : s[i] \in T
  BY ElementOfSeq
<1>3. s[n] \in T
  BY <1>1, <1>2
<1>4. \A i \in 1..(n-1) : s[i] \in T
  BY <1>1, <1>2
<1>5. f \in Seq(T)
  BY <1>1, <1>4
<1>6. /\ Len(f) = n - 1
      /\ \A i \in 1..(n - 1) : f[i] = s[i]
  <2>1. ASSUME NEW k \in Int, k > 0
        PROVE  /\ Len(SubSeq(s, 1, k - 1)) = k - 1
               /\ \A i \in 1..(k - 1) : SubSeq(s, 1, k - 1)[i] = s[i]
    BY <2>1
  <2>2. n > 0
    BY <1>1
  <2> QED
    BY <1>1, <2>1, <2>2, Zenon
<1> HIDE DEF f
<1>7. Append(f, s[n]) \in Seq(T) /\ Len(Append(f, s[n])) = n
  BY <1>1, <1>3, <1>5, <1>6
<1>8. \A i \in 1..n : Append(f, s[n])[i] = s[i]
  BY <1>1, <1>3, <1>5, <1>6
<1>9. Append(f, s[n]) = s
  BY <1>7, <1>8, SeqEqual
<1> QED
  BY <1>3, <1>5, <1>9 DEF Front, Last, f
\* A write adds the command's row, or none, or cuts the last one.
LEMMA OneWrite ==
    ASSUME TypeOK, Lined, NEW c \in Commands, NEW kind \in Kinds,
           ledger' = Written(c, kind)
    PROVE  /\ ledger' \in Seq(FullLines)
           /\ ledger' # <<>>
           /\ RowLost = {} => \/ ReadLedger' = ReadLedger
                              \/ ReadLedger' = Append(ReadLedger, c)
           /\ RowLost # {} => /\ RowLost = {"cut row"}
                              /\ ReadLedger' \in Seq(Commands)
                              /\ \E r \in Commands : ReadLedger = Append(ReadLedger', r)
<1>1. ledger \in Seq(FullLines)
  BY LedgerType
<1>2. CASE ended
  <2> DEFINE line == [of |-> <<c>>, kind |-> kind]
  <2>1. line \in FullLines /\ line.of[1] = c
    BY DEF FullLines, Lines
  <2>2. ledger' = Append(ledger, line)
    BY <1>2 DEF Written
  <2>3. RowLost = {}
    BY <1>2 DEF RowLost
  <2>4. ledger' \in Seq(FullLines) /\ ledger' # <<>>
    BY <1>1, <2>1, <2>2
  <2>5. ReadLedger' = ReadLedger \/ ReadLedger' = Append(ReadLedger, c)
    <3> HIDE DEF line
    <3>1. \/ RowsOf(Append(ledger, line)) = Append(RowsOf(ledger), line.of[1])
          \/ RowsOf(Append(ledger, line)) = RowsOf(ledger)
      BY <1>1, <2>1, RowsOfAppend
    <3> QED
      BY <2>1, <2>2, <3>1, Zenon DEF ReadLedger
  <2> QED
    BY <2>3, <2>4, <2>5
<1>3. CASE ~ended
  <2> DEFINE before == Front(ledger)
             last == Last(ledger)
             line == Continued(last, c, kind)
  <2>1. ledger # <<>> /\ Len(ledger) \in Nat \ {0}
    BY <1>1, <1>3, EmptySeq DEF Lined
  <2>2. last \in FullLines
    BY <1>1, <2>1, FrontAndLast
  <2>3. before \in Seq(FullLines) /\ Append(before, last) = ledger
    BY <1>1, <2>1, FrontAndLast
  <2>4. line \in FullLines /\ ~IsRow(line)
    <3> HIDE DEF last
    <3>1. last.of \in Seq(Commands) /\ last.of # <<>>
      BY <2>2 DEF FullLines, Lines
    <3>2. Append(last.of, c) \in Seq(Commands) /\ Append(last.of, c) # <<>>
      BY <3>1
    <3> QED
      BY <3>2 DEF Continued, FullLines, Lines, Kinds, IsRow
  <2>5. ledger' = Append(before, line)
    BY <1>3 DEF Written
  <2> HIDE DEF before, last, line
  <2>6. RowsOf(ledger') = RowsOf(before) /\ RowsOf(before) \in Seq(Commands)
    BY <2>3, <2>4, <2>5, RowsOfAppend
  <2>7. ledger' \in Seq(FullLines) /\ ledger' # <<>>
    BY <2>3, <2>4, <2>5
  <2>8. CASE IsRow(last)
    <3>1. RowsOf(ledger) = Append(RowsOf(before), last.of[1])
      BY <2>2, <2>3, <2>8, RowsOfAppend
    <3>2. last.of[1] \in Commands
      <4>1. last.of \in Seq(Commands) /\ last.of # <<>>
        BY <2>2 DEF FullLines, Lines
      <4>2. Len(last.of) \in Nat \ {0}
        BY <4>1, EmptySeq
      <4> QED
        BY <4>1, <4>2, ElementOfSeq
    <3>3. RowLost = {"cut row"}
      BY <1>3, <2>8 DEF RowLost, last
    <3> QED
      BY <2>6, <2>7, <3>1, <3>2, <3>3 DEF ReadLedger
  <2>9. CASE ~IsRow(last)
    <3>1. RowsOf(ledger) = RowsOf(before)
      BY <2>2, <2>3, <2>9, RowsOfAppend
    <3>2. RowLost = {}
      BY <2>9 DEF RowLost, last
    <3> QED
      BY <2>6, <2>7, <3>1, <3>2 DEF ReadLedger
  <2> QED
    BY <2>8, <2>9
<1> QED
  BY <1>2, <1>3

-----------------------------------------------------------------------------
(* The steps *)

LEMMA NextCases ==
    ASSUME [Next]_vars
    PROVE  \/ \E c \in Commands :
                \/ RunSubjectVerb(c) \/ AppendLedger(c) \/ LoadAuth(c)
                \/ ReadRows(c) \/ LoadCursor(c)
                \/ PushRow(c) \/ PushFails(c) \/ PushRaises(c) \/ AllPushed(c)
                \/ TruncateCursor(c) \/ WriteCursor(c) \/ Dies(c)
                \/ \E kind \in Kinds : CutShort(c, kind)
           \/ UNCHANGED storeVars /\ auth' \in Accounts \cup {NoAccount, Unreadable, auth}
  BY DEF Next, Record, vars, TruncateAuth, WriteAuth, ClearAuth

\* A row that is about to be pushed is one of the snapshot's.
LEMMA NextRowType ==
    ASSUME TypeOK, NEW c \in Commands, Reached(c) < Len(rows[c])
    PROVE  /\ Reached(c) + 1 \in 1..Len(rows[c])
           /\ NextRow(c) \in Commands
<1>1. rows[c] \in Seq(Commands) /\ Reached(c) \in Nat /\ Len(rows[c]) \in Nat
  BY DEF TypeOK, Reached
<1>2. Reached(c) + 1 \in 1..Len(rows[c])
  BY <1>1
<1> QED
  BY <1>1, <1>2, ElementOfSeq DEF NextRow

\* A command that ends stays within the types.
LEMMA EndsType ==
    ASSUME TypeOK, NEW c \in Commands, NEW said \in Answers, Ends(c, said)
    PROVE  /\ pc' \in [Commands -> Steps]
           /\ rows' \in [Commands -> Seq(Commands)]
           /\ start' \in [Commands -> Nat]
           /\ synced' \in [Commands -> Nat]
           /\ answer' \in [Commands -> Answers]
<1>1. <<>> \in Seq(Commands) /\ "over" \in Steps
  BY DEF Steps
<1>2. rows' \in [Commands -> Seq(Commands)]
  BY <1>1 DEF TypeOK, Ends
<1>3. pc' \in [Commands -> Steps]
  BY <1>1 DEF TypeOK, Ends, Goto
<1> QED
  BY <1>2, <1>3 DEF TypeOK, Ends

LEMMA TypeKept ==
    ASSUME TypeOK, Lined, Progress, [Next]_vars
    PROVE  TypeOK' /\ Lined'
<1> USE DEF fileVars, pushVars, storeVars, Goto
<1>0. /\ \A c \in Commands : answer[c] \in Answers
      /\ {"error", "not signed in", "none", "ok", "not ok"} \subseteq Answers
      /\ {"acked", "ledgered", "signed in", "read", "pushing", "saving", "writing"}
            \subseteq Steps
  BY DEF TypeOK, Answers, Steps
<1>1. ASSUME NEW c \in Commands, RunSubjectVerb(c) PROVE TypeOK' /\ Lined'
  <2>1. CASE Ends(c, "error")
    BY <1>0, <1>1, <2>1, EndsType DEF RunSubjectVerb, TypeOK, Lined
  <2>2. CASE ~Ends(c, "error")
    BY <1>0, <1>1, <2>2 DEF RunSubjectVerb, TypeOK, Lined
  <2> QED
    BY <2>1, <2>2
<1>2. ASSUME NEW c \in Commands, NEW kind \in Kinds, ledger' = Written(c, kind)
      PROVE  /\ ledger' \in Seq(Lines) /\ ledger' # <<>>
             /\ \A i \in 1..Len(ledger') : ledger'[i].of # <<>>
             /\ disturbed \cup RowLost \subseteq Mishaps
  <2>1. ledger' \in Seq(FullLines) /\ ledger' # <<>>
    BY <1>2, OneWrite
  <2>2. \A i \in 1..Len(ledger') : ledger'[i] \in FullLines
    BY <2>1, ElementOfSeq
  <2>3. ledger' \in Seq(Lines)
    BY <2>1 DEF FullLines
  <2>4. disturbed \cup RowLost \subseteq Mishaps
    BY DEF RowLost, TypeOK, Mishaps
  <2> QED
    BY <2>1, <2>2, <2>3, <2>4 DEF FullLines
<1>3. ASSUME NEW c \in Commands, AppendLedger(c) PROVE TypeOK' /\ Lined'
  <2>1. "row" \in Kinds
    BY DEF Kinds
  <2> QED
    BY <1>0, <1>2, <1>3, <2>1 DEF AppendLedger, TypeOK, Lined
<1>4. ASSUME NEW c \in Commands, NEW kind \in Kinds, CutShort(c, kind)
      PROVE  TypeOK' /\ Lined'
  BY <1>0, <1>2, <1>4, EndsType DEF CutShort, TypeOK, Lined
<1>5. ASSUME NEW c \in Commands, LoadAuth(c) PROVE TypeOK' /\ Lined'
  <2>1. CASE auth \in Accounts
    BY <1>0, <1>5, <2>1 DEF LoadAuth, TypeOK, Lined
  <2>2. CASE auth \notin Accounts
    <3>1. PICK said \in Answers : Ends(c, said)
      BY <1>0, <1>5, <2>2 DEF LoadAuth
    <3> QED
      BY <1>5, <3>1, EndsType DEF LoadAuth, TypeOK, Lined
  <2> QED
    BY <2>1, <2>2
<1>6. ASSUME NEW c \in Commands, ReadRows(c) PROVE TypeOK' /\ Lined'
  <2>1. disturbed' \subseteq Mishaps
    BY <1>6 DEF ReadRows, TypeOK, Mishaps
  <2>2. CASE Decodes
    <3>1. ReadLedger \in Seq(Commands)
      BY RowsType
    <3> QED
      BY <1>0, <1>6, <2>1, <2>2, <3>1 DEF ReadRows, TypeOK, Lined
  <2>3. CASE ~Decodes
    BY <1>0, <1>6, <2>1, <2>3, EndsType DEF ReadRows, TypeOK, Lined
  <2> QED
    BY <2>2, <2>3
<1>7. ASSUME NEW c \in Commands, LoadCursor(c) PROVE TypeOK' /\ Lined'
  <2>1. Smaller(LoadSyncState, Len(rows[c])) \in Nat
    BY DEF TypeOK, Smaller, LoadSyncState
  <2> QED
    BY <1>0, <1>7, <2>1 DEF LoadCursor, TypeOK, Lined
<1>8. ASSUME NEW c \in Commands, Reached(c) < Len(rows[c]),
             \/ UNCHANGED server
             \/ NextRow(c) \notin Refused /\ Inserted(NextRow(c))
      PROVE  server' \in [Commands -> Nat]
  <2>1. NextRow(c) \in Commands
    BY <1>8, NextRowType
  <2>2. server \in [Commands -> Nat]
    BY DEF TypeOK
  <2> QED
    BY <1>8, <2>1, <2>2 DEF Inserted
<1>9. ASSUME NEW c \in Commands, PushRow(c) PROVE TypeOK' /\ Lined'
  BY <1>8, <1>9 DEF PushRow, TypeOK, Lined
<1>10. ASSUME NEW c \in Commands, PushFails(c) PROVE TypeOK' /\ Lined'
  <2>1. server' \in [Commands -> Nat] /\ disturbed' \subseteq Mishaps
    BY <1>8, <1>10 DEF PushFails, TypeOK, Mishaps
  <2> QED
    BY <1>0, <1>10, <2>1 DEF PushFails, TypeOK, Lined
<1>11. ASSUME NEW c \in Commands, PushRaises(c) PROVE TypeOK' /\ Lined'
  <2>1. server' \in [Commands -> Nat] /\ disturbed' \subseteq Mishaps
    BY <1>8, <1>11 DEF PushRaises, TypeOK, Mishaps
  <2> QED
    BY <1>0, <1>11, <2>1, EndsType DEF PushRaises, TypeOK, Lined
<1>12. ASSUME NEW c \in Commands, AllPushed(c) PROVE TypeOK' /\ Lined'
  BY <1>0, <1>12 DEF AllPushed, TypeOK, Lined
<1>13. ASSUME NEW c \in Commands, TruncateCursor(c) PROVE TypeOK' /\ Lined'
  BY <1>0, <1>13 DEF TruncateCursor, TypeOK, Lined
<1>14. ASSUME NEW c \in Commands, WriteCursor(c) PROVE TypeOK' /\ Lined'
  <2>1. Reached(c) \in Nat
    BY DEF TypeOK, Reached
  <2> QED
    BY <1>0, <1>14, <2>1, EndsType DEF WriteCursor, TypeOK, Lined
<1>15. ASSUME NEW c \in Commands, Dies(c) PROVE TypeOK' /\ Lined'
  <2>1. disturbed' \subseteq Mishaps
    BY <1>15 DEF Dies, TypeOK, Mishaps
  <2> QED
    BY <1>0, <1>15, <2>1, EndsType DEF Dies, TypeOK, Lined
<1>16. ASSUME UNCHANGED storeVars, auth' \in Accounts \cup {NoAccount, Unreadable, auth}
       PROVE  TypeOK' /\ Lined'
  BY <1>16 DEF TypeOK, Lined
<1> QED
  BY <1>1, <1>3, <1>4, <1>5, <1>6, <1>7, <1>9, <1>10, <1>11, <1>12, <1>13, <1>14,
     <1>15, <1>16, NextCases

\* What the others do is theirs.
LEMMA OthersProgress ==
    ASSUME Progress, NEW c \in Commands, ProgressOf(c)',
           \A d \in Commands \ {c} :
              /\ pc'[d] = pc[d] /\ rows'[d] = rows[d] /\ start'[d] = start[d]
              /\ synced'[d] = synced[d] /\ answer'[d] = answer[d]
    PROVE  Progress'
<1>1. ASSUME NEW d \in Commands \ {c} PROVE ProgressOf(d)'
  <2>1. ProgressOf(d)
    BY DEF Progress
  <2>2. /\ pc'[d] = pc[d] /\ rows'[d] = rows[d] /\ start'[d] = start[d]
        /\ synced'[d] = synced[d] /\ answer'[d] = answer[d]
    OBVIOUS
  <2> QED
    BY <2>1, <2>2 DEF ProgressOf, Pushing, Reached
<1> QED
  BY <1>1 DEF Progress

LEMMA EndsProgress ==
    ASSUME TypeOK, Progress, NEW c \in Commands, NEW said, Ends(c, said)
    PROVE  Progress'
<1>1. \A d \in Commands \ {c} :
        /\ pc'[d] = pc[d] /\ rows'[d] = rows[d] /\ start'[d] = start[d]
        /\ synced'[d] = synced[d] /\ answer'[d] = answer[d]
  BY DEF TypeOK, Ends, Goto
<1>2. pc'[c] = "over" /\ rows'[c] = <<>> /\ start'[c] = 0 /\ synced'[c] = 0
  BY DEF TypeOK, Ends, Goto
<1>3. Len(<<>>) = 0
  OBVIOUS
<1>4. ProgressOf(c)'
  BY <1>2, <1>3 DEF ProgressOf, Pushing, Reached
<1> QED
  BY <1>1, <1>4, OthersProgress

LEMMA ProgressKept ==
    ASSUME TypeOK, Lined, Progress, [Next]_vars
    PROVE  Progress'
<1> USE DEF fileVars, pushVars, storeVars, Goto
<1> DEFINE Before == {"idle", "acked", "ledgered", "signed in"}
<1>1. ASSUME NEW c \in Commands, NEW step \in Before, pc[c] \in Before,
             Goto(c, step), UNCHANGED <<pushVars, answer>>
      PROVE  Progress'
  BY <1>1 DEF TypeOK, Progress, ProgressOf, Pushing, Reached
<1>2. ASSUME NEW c \in Commands, RunSubjectVerb(c) PROVE Progress'
  BY <1>1, <1>2, EndsProgress DEF RunSubjectVerb
<1>3. ASSUME NEW c \in Commands, AppendLedger(c) PROVE Progress'
  BY <1>1, <1>3 DEF AppendLedger
<1>4. ASSUME NEW c \in Commands, LoadAuth(c) PROVE Progress'
  BY <1>1, <1>4, EndsProgress DEF LoadAuth
<1>5. ASSUME NEW c \in Commands, ReadRows(c) PROVE Progress'
  <2>1. CASE Decodes
    <3>1. pc[c] = "signed in" /\ rows' = [rows EXCEPT ![c] = ReadLedger]
          /\ pc' = [pc EXCEPT ![c] = "read"] /\ UNCHANGED <<start, synced, answer>>
      BY <1>5, <2>1 DEF ReadRows
    <3>2. Len(ReadLedger) \in Nat
      BY RowsType
    <3>3. ProgressOf(c)
      BY DEF Progress
    <3>5. start[c] = 0 /\ synced[c] = 0 /\ answer[c] = "none"
      BY <3>1, <3>3 DEF ProgressOf, Pushing
    <3>6. /\ pc'[c] = "read" /\ rows'[c] = ReadLedger
          /\ start'[c] = 0 /\ synced'[c] = 0 /\ answer'[c] = "none"
      BY <3>1, <3>5 DEF TypeOK
    <3>4. ProgressOf(c)'
      BY <3>2, <3>6 DEF ProgressOf, Pushing, Reached
    <3> QED
      BY <3>1, <3>4, OthersProgress DEF TypeOK
  <2>2. CASE ~Decodes
    BY <1>5, <2>2, EndsProgress DEF ReadRows
  <2> QED
    BY <2>1, <2>2
<1>6. ASSUME NEW c \in Commands, LoadCursor(c) PROVE Progress'
  <2>1. /\ Smaller(LoadSyncState, Len(rows[c])) \in Nat
        /\ Smaller(LoadSyncState, Len(rows[c])) <= Len(rows[c])
    BY DEF TypeOK, Smaller, LoadSyncState
  <2>2. ProgressOf(c)
    BY DEF Progress
  <2> DEFINE from == Smaller(LoadSyncState, Len(rows[c]))
  <2>3. /\ start' = [start EXCEPT ![c] = from] /\ pc' = [pc EXCEPT ![c] = "pushing"]
        /\ pc[c] = "read" /\ UNCHANGED <<rows, synced, answer>>
    BY <1>6 DEF LoadCursor
  <2> HIDE DEF from
  <2>4. ProgressOf(c)'
    BY <2>1, <2>2, <2>3 DEF TypeOK, ProgressOf, Pushing, Reached, from
  <2> QED
    BY <2>3, <2>4, OthersProgress DEF TypeOK
<1>7. ASSUME NEW c \in Commands, PushRow(c) PROVE Progress'
  <2>1. /\ pc[c] = "pushing" /\ Reached(c) < Len(rows[c])
        /\ synced' = [synced EXCEPT ![c] = @ + 1]
        /\ UNCHANGED <<pc, rows, start, answer>>
    BY <1>7 DEF PushRow
  <2>2. \A d \in Commands : start[d] \in Nat /\ synced[d] \in Nat /\ Len(rows[d]) \in Nat
    BY DEF TypeOK
  <2>3. ProgressOf(c)
    BY DEF Progress
  <2>4. ProgressOf(c)'
    BY <2>1, <2>2, <2>3 DEF TypeOK, ProgressOf, Pushing, Reached
  <2> QED
    BY <2>1, <2>4, OthersProgress DEF TypeOK
<1>8. ASSUME NEW c \in Commands, NEW said, pc[c] = "pushing", Goto(c, "saving"),
             answer' = [answer EXCEPT ![c] = said], UNCHANGED pushVars
      PROVE  Progress'
  BY <1>8 DEF TypeOK, Progress, ProgressOf, Pushing, Reached
<1>9. ASSUME NEW c \in Commands, PushFails(c) \/ AllPushed(c) PROVE Progress'
  BY <1>8, <1>9 DEF PushFails, AllPushed
<1>10. ASSUME NEW c \in Commands, TruncateCursor(c) PROVE Progress'
  BY <1>10 DEF TruncateCursor, TypeOK, Progress, ProgressOf, Pushing, Reached
<1>11. ASSUME NEW c \in Commands,
              \/ PushRaises(c) \/ WriteCursor(c) \/ Dies(c)
              \/ \E kind \in Kinds : CutShort(c, kind)
       PROVE  Progress'
  BY <1>11, EndsProgress DEF PushRaises, WriteCursor, Dies, CutShort
<1>12. ASSUME UNCHANGED storeVars PROVE Progress'
  BY <1>12 DEF Progress, ProgressOf, Pushing, Reached
<1> QED
  BY <1>2, <1>3, <1>4, <1>5, <1>6, <1>7, <1>9, <1>10, <1>11, <1>12, NextCases

\* A row keeps its place as long as the ledger and the snapshots only lose
\* some and what is pushed was recorded.
LEMMA PlacedKept ==
    ASSUME Placed, ReadLedger' = ReadLedger,
           \A d \in Commands : Recorded(d) => Recorded(d)',
           \A d \in Commands : rows'[d] \in {rows[d], <<>>},
           \A r \in Commands : server'[r] > 0 => server[r] > 0 \/ Recorded(r),
           TypeOK, Lined
    PROVE  Placed'
<1>1. ReadLedger \in Seq(Commands)
  BY RowsType
<1>2. Places' = Places /\ \A i \in Places : ReadLedger[i] \in Commands
  BY <1>1, ElementOfSeq DEF Places
<1>3. \A d \in Commands : \A i \in 1..Len(rows[d]) : rows[d][i] \in Commands
  BY ElementOfSeq DEF TypeOK
<1>4. Len(<<>>) = 0
  OBVIOUS
<1>5. \A d \in Commands : \A i \in 1..Len(rows'[d]) :
        i \in 1..Len(rows[d]) /\ rows'[d][i] = rows[d][i]
  BY <1>4
<1> QED
  BY <1>2, <1>3, <1>5 DEF Placed

LEMMA PlacedPreserved ==
    ASSUME TypeOK, Lined, Progress, Placed, [Next]_vars
    PROVE  Placed'
<1> USE DEF fileVars, pushVars, storeVars, Goto
<1>0. UNCHANGED ledger => ReadLedger' = ReadLedger
  BY DEF ReadLedger
<1>1. ASSUME NEW c \in Commands, NEW said, Ends(c, said), UNCHANGED <<ledger, server>>
      PROVE  Placed'
  <2>1. \A d \in Commands : Recorded(d) => Recorded(d)'
    BY <1>1 DEF Ends, TypeOK, Recorded
  <2>2. \A d \in Commands : rows'[d] \in {rows[d], <<>>}
    BY <1>1 DEF Ends, TypeOK
  <2> QED
    BY <1>0, <1>1, <2>1, <2>2, PlacedKept
<1>2. ASSUME NEW c \in Commands, NEW step \in Steps \ {"idle", "acked"}, Goto(c, step),
             UNCHANGED <<ledger, server, rows>>
      PROVE  Placed'
  <2>1. \A d \in Commands : Recorded(d) => Recorded(d)'
    BY <1>2 DEF TypeOK, Recorded
  <2> QED
    BY <1>0, <1>2, <2>1, PlacedKept
<1>3. ASSUME NEW c \in Commands, RunSubjectVerb(c) PROVE Placed'
  <2>1. CASE Ends(c, "error")
    BY <1>1, <1>3, <2>1 DEF RunSubjectVerb
  <2>2. CASE ~Ends(c, "error")
    <3>1. \A d \in Commands : Recorded(d) => Recorded(d)'
      BY <1>3, <2>2 DEF RunSubjectVerb, TypeOK, Recorded
    <3> QED
      BY <1>0, <1>3, <2>2, <3>1, PlacedKept DEF RunSubjectVerb
  <2> QED
    BY <2>1, <2>2
<1>4. ASSUME NEW c \in Commands, NEW kind \in Kinds, pc[c] = "acked",
             ledger' = Written(c, kind), UNCHANGED server,
             pc'[c] \notin {"idle", "acked"},
             \A d \in Commands \ {c} : pc'[d] = pc[d],
             \A d \in Commands : rows'[d] \in {rows[d], <<>>}
      PROVE  Placed'
  <2>1. \A d \in Commands : Recorded(d) => Recorded(d)'
    BY <1>4 DEF Recorded
  <2>2. ~Recorded(c) /\ Recorded(c)'
    BY <1>4 DEF Recorded
  <2>3. CASE ReadLedger' = ReadLedger
    BY <1>4, <2>1, <2>3, PlacedKept
  <2>4. ReadLedger \in Seq(Commands)
    BY RowsType
  <2>5. \A d \in Commands : \A i \in 1..Len(rows'[d]) :
          /\ i \in 1..Len(rows[d]) /\ rows'[d][i] = rows[d][i] /\ rows[d][i] \in Commands
    <3>1. \A d \in Commands : \A i \in 1..Len(rows[d]) : rows[d][i] \in Commands
      BY ElementOfSeq DEF TypeOK
    <3>2. Len(<<>>) = 0
      OBVIOUS
    <3> QED
      BY <1>4, <3>1, <3>2
  <2>6. \A r \in Commands : server'[r] = server[r]
    BY <1>4
  <2>9. /\ \A r \in Commands : server'[r] > 0 => Recorded(r)'
        /\ \A d \in Commands :
              /\ \A i \in 1..Len(rows'[d]) : Recorded(rows[d][i])' /\ rows'[d][i] = rows[d][i]
              /\ \A i, j \in 1..Len(rows'[d]) : rows'[d][i] = rows'[d][j] => i = j
    <3>1. \A r \in Commands : server[r] > 0 => Recorded(r)
      BY DEF Placed
    <3>2. ASSUME NEW d \in Commands
          PROVE  /\ \A i \in 1..Len(rows[d]) : Recorded(rows[d][i])
                 /\ \A i, j \in 1..Len(rows[d]) : rows[d][i] = rows[d][j] => i = j
      BY DEF Placed
    <3>3. \A d \in Commands : \A i \in 1..Len(rows'[d]) :
            Recorded(rows[d][i])' /\ rows'[d][i] = rows[d][i]
      <4> SUFFICES ASSUME NEW d \in Commands, NEW i \in 1..Len(rows'[d])
                   PROVE  Recorded(rows[d][i])' /\ rows'[d][i] = rows[d][i]
        OBVIOUS
      <4>1. i \in 1..Len(rows[d]) /\ rows'[d][i] = rows[d][i] /\ rows[d][i] \in Commands
        BY <2>5
      <4>2. Recorded(rows[d][i]) /\ (Recorded(rows[d][i]) => pc'[rows[d][i]] \notin {"idle", "acked"})
        BY <2>1, <3>2, <4>1 DEF Recorded
      <4> QED
        BY <4>1, <4>2 DEF Recorded
    <3>4. \A d \in Commands : \A i, j \in 1..Len(rows'[d]) :
            rows'[d][i] = rows'[d][j] => i = j
      BY <2>5, <3>2
    <3> QED
      BY <2>1, <2>6, <3>1, <3>3, <3>4
  <2>7. CASE ReadLedger' = Append(ReadLedger, c)
    <3>1. /\ Len(ReadLedger') = Len(ReadLedger) + 1
          /\ \A i \in 1..Len(ReadLedger) : ReadLedger'[i] = ReadLedger[i]
          /\ ReadLedger'[Len(ReadLedger) + 1] = c
          /\ \A i \in 1..Len(ReadLedger) : ReadLedger[i] \in Commands
          /\ Len(ReadLedger) \in Nat
      BY <2>4, <2>7
    <3>2. \A i \in Places' : Recorded(ReadLedger[i])'
      BY <2>1, <2>2, <2>5, <2>6, <3>1 DEF Placed, Places
    <3>3. \A i, j \in Places' : ReadLedger'[i] = ReadLedger'[j] => i = j
      <4>1. \A i \in 1..Len(ReadLedger) : ReadLedger[i] # c
        BY <2>2 DEF Placed, Places
      <4>2. \A i, j \in 1..Len(ReadLedger) : ReadLedger[i] = ReadLedger[j] => i = j
        BY DEF Placed, Places
      <4>3. \A i \in Places' : i \in 1..Len(ReadLedger) \/ i = Len(ReadLedger) + 1
        BY <3>1 DEF Places
      <4> QED
        BY <3>1, <4>1, <4>2, <4>3
    <3>4. ASSUME NEW d \in Commands, NEW i \in Places', NEW j \in 1..Len(rows'[d]),
                 ReadLedger'[i] = rows'[d][j]
          PROVE  i = j
      <4>1. j \in 1..Len(rows[d]) /\ rows'[d][j] = rows[d][j] /\ rows[d][j] \in Commands
        BY <2>5
      <4>2. Recorded(rows[d][j])
        BY <4>1 DEF Placed
      <4>3. i # Len(ReadLedger) + 1
        BY <2>2, <3>1, <3>4, <4>1, <4>2
      <4>4. i \in Places /\ ReadLedger'[i] = ReadLedger[i]
        BY <3>1, <4>3 DEF Places
      <4> QED
        BY <3>4, <4>1, <4>4 DEF Placed
    <3> QED
      BY <2>9, <3>2, <3>3, <3>4 DEF Placed
  <2>8. CASE \E r \in Commands :
               ReadLedger' \in Seq(Commands) /\ ReadLedger = Append(ReadLedger', r)
    <3>1. /\ Len(ReadLedger') \in Nat /\ Len(ReadLedger) = Len(ReadLedger') + 1
          /\ \A i \in 1..Len(ReadLedger') :
                ReadLedger'[i] = ReadLedger[i] /\ ReadLedger[i] \in Commands
      BY <2>8
    <3>2. \A i \in Places' : Recorded(ReadLedger[i])'
      BY <2>1, <2>5, <2>6, <3>1 DEF Placed, Places
    <3>3. \A i, j \in Places' : ReadLedger'[i] = ReadLedger'[j] => i = j
      BY <2>1, <2>5, <2>6, <3>1 DEF Placed, Places
    <3>4. ASSUME NEW d \in Commands, NEW i \in Places', NEW j \in 1..Len(rows'[d]),
                 ReadLedger'[i] = rows'[d][j]
          PROVE  i = j
      <4>1. j \in 1..Len(rows[d]) /\ rows'[d][j] = rows[d][j]
        BY <2>5
      <4>2. i \in Places /\ ReadLedger'[i] = ReadLedger[i]
        BY <3>1 DEF Places
      <4> QED
        BY <3>4, <4>1, <4>2 DEF Placed
    <3> QED
      BY <2>9, <3>2, <3>3, <3>4 DEF Placed
  <2> QED
    BY <1>4, <2>3, <2>7, <2>8, OneWrite
<1>5. ASSUME NEW c \in Commands, AppendLedger(c) PROVE Placed'
  <2>1. "row" \in Kinds
    BY DEF Kinds
  <2>2. pc'[c] = "ledgered" /\ (\A d \in Commands \ {c} : pc'[d] = pc[d])
    BY <1>5 DEF AppendLedger, TypeOK
  <2> QED
    BY <1>4, <1>5, <2>1, <2>2 DEF AppendLedger
<1>6. ASSUME NEW c \in Commands, NEW kind \in Kinds, CutShort(c, kind) PROVE Placed'
  <2>1. /\ pc'[c] = "over" /\ (\A d \in Commands \ {c} : pc'[d] = pc[d])
        /\ \A d \in Commands : rows'[d] \in {rows[d], <<>>}
    BY <1>6 DEF CutShort, Ends, TypeOK
  <2> QED
    BY <1>4, <1>6, <2>1 DEF CutShort
<1>7. ASSUME NEW c \in Commands, LoadAuth(c) PROVE Placed'
  BY <1>1, <1>2, <1>7 DEF LoadAuth, Steps
<1>8. ASSUME NEW c \in Commands, ReadRows(c) PROVE Placed'
  <2>1. CASE Decodes
    <3>1. /\ rows'[c] = ReadLedger /\ (\A d \in Commands \ {c} : rows'[d] = rows[d])
          /\ pc'[c] = "read" /\ (\A d \in Commands \ {c} : pc'[d] = pc[d])
          /\ UNCHANGED server /\ ReadLedger' = ReadLedger
      BY <1>0, <1>8, <2>1 DEF ReadRows, TypeOK
    <3>2. \A i \in Places : ReadLedger[i] \in Commands
      BY RowsType, ElementOfSeq DEF Places
    <3>3. \A d \in Commands : \A i \in 1..Len(rows[d]) : rows[d][i] \in Commands
      BY ElementOfSeq DEF TypeOK
    <3> QED
      BY <3>1, <3>2, <3>3 DEF Placed, Places, Recorded
  <2>2. CASE ~Decodes
    BY <1>1, <1>8, <2>2 DEF ReadRows
  <2> QED
    BY <2>1, <2>2
<1>9. ASSUME NEW c \in Commands, LoadCursor(c) \/ AllPushed(c) \/ TruncateCursor(c)
      PROVE  Placed'
  BY <1>2, <1>9 DEF LoadCursor, AllPushed, TruncateCursor, Steps
<1>10. ASSUME NEW c \in Commands, Reached(c) < Len(rows[c]),
              \/ UNCHANGED server
              \/ NextRow(c) \notin Refused /\ Inserted(NextRow(c))
       PROVE  \A r \in Commands : server'[r] > 0 => server[r] > 0 \/ Recorded(r)
  <2>1. NextRow(c) \in Commands /\ Recorded(NextRow(c))
    BY <1>10, NextRowType DEF Placed, NextRow
  <2> QED
    BY <1>10, <2>1 DEF Inserted, TypeOK
<1>11. ASSUME NEW c \in Commands, PushRow(c) PROVE Placed'
  <2>1. \A d \in Commands : Recorded(d) => Recorded(d)'
    BY <1>11 DEF PushRow, Recorded
  <2> QED
    BY <1>0, <1>10, <1>11, <2>1, PlacedKept DEF PushRow
<1>12. ASSUME NEW c \in Commands, PushFails(c) PROVE Placed'
  <2>1. \A d \in Commands : Recorded(d) => Recorded(d)'
    BY <1>12 DEF PushFails, Recorded, TypeOK
  <2>2. \A r \in Commands : server'[r] > 0 => server[r] > 0 \/ Recorded(r)
    BY <1>10, <1>12 DEF PushFails
  <2> QED
    BY <1>0, <1>12, <2>1, <2>2, PlacedKept DEF PushFails
<1>13. ASSUME NEW c \in Commands, PushRaises(c) PROVE Placed'
  <2>1. \A d \in Commands : Recorded(d) => Recorded(d)'
    BY <1>13 DEF PushRaises, Ends, Recorded, TypeOK
  <2>2. \A r \in Commands : server'[r] > 0 => server[r] > 0 \/ Recorded(r)
    BY <1>10, <1>13 DEF PushRaises
  <2>3. \A d \in Commands : rows'[d] \in {rows[d], <<>>}
    BY <1>13 DEF PushRaises, Ends, TypeOK
  <2> QED
    BY <1>0, <1>13, <2>1, <2>2, <2>3, PlacedKept DEF PushRaises
<1>14. ASSUME NEW c \in Commands, WriteCursor(c) \/ Dies(c) PROVE Placed'
  BY <1>1, <1>14 DEF WriteCursor, Dies
<1>15. ASSUME UNCHANGED storeVars PROVE Placed'
  <2>1. \A d \in Commands : Recorded(d) => Recorded(d)'
    BY <1>15 DEF Recorded
  <2> QED
    BY <1>0, <1>15, <2>1, PlacedKept
<1> QED
  BY <1>3, <1>5, <1>6, <1>7, <1>8, <1>9, <1>11, <1>12, <1>13, <1>14, <1>15, NextCases

-----------------------------------------------------------------------------
(* As long as no row lost its line *)

\* What is disturbed stays so.
LEMMA DisturbedGrows ==
    ASSUME [Next]_vars
    PROVE  disturbed \subseteq disturbed'
<1>1. ASSUME NEW c \in Commands,
             \/ RunSubjectVerb(c) \/ AppendLedger(c) \/ LoadAuth(c)
             \/ ReadRows(c) \/ LoadCursor(c)
             \/ PushRow(c) \/ AllPushed(c)
             \/ TruncateCursor(c) \/ WriteCursor(c) \/ Dies(c)
      PROVE  disturbed \subseteq disturbed'
  BY <1>1 DEF RunSubjectVerb, AppendLedger, LoadAuth, ReadRows, LoadCursor, PushRow,
              AllPushed, TruncateCursor, WriteCursor, Dies
<1>2. ASSUME NEW c \in Commands,
             PushFails(c) \/ PushRaises(c) \/ \E kind \in Kinds : CutShort(c, kind)
      PROVE  disturbed \subseteq disturbed'
  BY <1>2 DEF PushFails, PushRaises, CutShort
<1> QED
  BY <1>1, <1>2, NextCases DEF storeVars

\* A row is in the ledger where it can be read.
LEMMA InLedger ==
    ASSUME TypeOK, Lined, NEW r
    PROVE  r \in ToSet(ReadLedger) <=> \E i \in Places : ReadLedger[i] = r
  BY RowsType DEF ToSet, Places

\* The ledger stays, or grows by the row of a command that does not push.
Grows(r) == ReadLedger' = ReadLedger \/ ReadLedger' = Append(ReadLedger, r)

LEMMA GrowthKeepsRows ==
    ASSUME TypeOK, Lined, NEW c \in Commands, Grows(c)
    PROVE  /\ Len(ReadLedger) \in Nat /\ Len(ReadLedger') \in Nat
           /\ Len(ReadLedger) <= Len(ReadLedger')
           /\ Len(ReadLedger') <= Len(ReadLedger) + 1
           /\ \A i \in Places : /\ ReadLedger'[i] = ReadLedger[i]
                                 /\ ReadLedger[i] \in Commands
           /\ \A i \in Places' : i \in Places \/ (i = Len(ReadLedger) + 1 /\ ReadLedger'[i] = c)
<1>1. ReadLedger \in Seq(Commands)
  BY RowsType
<1>2. \A i \in Places : ReadLedger[i] \in Commands
  BY <1>1, ElementOfSeq DEF Places
<1>3. CASE ReadLedger' = ReadLedger
  BY <1>1, <1>2, <1>3 DEF Places
<1>4. CASE ReadLedger' = Append(ReadLedger, c)
  BY <1>1, <1>2, <1>4 DEF Places
<1> QED
  BY <1>3, <1>4 DEF Grows

\* A snapshot still counts while its command stands still.
LEMMA SnapshotKept ==
    ASSUME TypeOK, Lined, NEW c \in Commands, NEW d \in Commands, SnapshotCounted(d),
           Reached(d) <= Len(rows[d]),
           ReadLedger' = ReadLedger \/ (Grows(c) /\ (d = c => ~Pushing(d)')),
           Pushing(d)' => Pushing(d),
           rows'[d] = rows[d], Reached(d)' = Reached(d),
           \A r \in Commands : Pushed(r) => Pushed(r)'
    PROVE  SnapshotCounted(d)'
<1>1. rows[d] \in Seq(Commands) /\ Len(rows[d]) \in Nat /\ Reached(d) \in Nat
  BY DEF TypeOK, Reached
<1>2. \A i \in 1..Len(rows[d]) : rows[d][i] \in Commands
  BY <1>1, ElementOfSeq
<1>3. /\ Len(ReadLedger) \in Nat /\ Len(ReadLedger') \in Nat
      /\ Len(ReadLedger) <= Len(ReadLedger')
      /\ \A i \in Places : ReadLedger'[i] = ReadLedger[i]
      /\ \A i \in Places' : i \in Places \/ (i = Len(ReadLedger) + 1 /\ ReadLedger'[i] = c)
  BY GrowthKeepsRows DEF Grows
<1>4. Len(rows'[d]) <= Len(ReadLedger')
  BY <1>1, <1>3 DEF SnapshotCounted
<1>5. \A i \in 1..Len(rows'[d]) : rows'[d][i] = ReadLedger'[i]
  <2>1. \A i \in 1..Len(rows[d]) : i \in Places /\ rows[d][i] = ReadLedger[i]
    BY <1>1, <1>3 DEF SnapshotCounted, Places
  <2> QED
    BY <1>3, <2>1
<1>6. \A i \in 1..Reached(d)' : Pushed(rows[d][i])'
  <2>1. ASSUME NEW i \in 1..Reached(d)' PROVE Pushed(rows[d][i])'
    <3>1. i \in 1..Reached(d) /\ i \in 1..Len(rows[d])
      BY <1>1
    <3>2. Pushed(rows[d][i]) /\ rows[d][i] \in Commands
      BY <1>2, <3>1 DEF SnapshotCounted
    <3>3. server'[rows[d][i]] > 0
      BY <3>2 DEF Pushed
    <3> QED
      BY <3>3 DEF Pushed
  <2> QED
    BY <2>1
<1>7. ASSUME Pushing(d)', NEW i \in Places', ReadLedger'[i] = d
      PROVE  \E j \in 1..Len(rows'[d]) : rows'[d][j] = d
  <2>1. i \in Places /\ ReadLedger[i] = d /\ Pushing(d)
    BY <1>3, <1>7 DEF Places
  <2> QED
    BY <2>1 DEF SnapshotCounted
<1> QED
  BY <1>4, <1>5, <1>6, <1>7 DEF SnapshotCounted

\* A command that does not push has nothing to count.
LEMMA NoSnapshot ==
    ASSUME TypeOK, Lined, NEW c \in Commands, NEW d \in Commands, Grows(d),
           rows'[c] = <<>>, Reached(c)' = 0, ~Pushing(c)'
    PROVE  SnapshotCounted(c)'
<1>1. Len(<<>>) = 0 /\ Len(ReadLedger') \in Nat
  BY GrowthKeepsRows
<1> QED
  BY <1>1 DEF SnapshotCounted

LEMMA CursorKept ==
    ASSUME TypeOK, Lined, CursorCounted, NEW c \in Commands, Grows(c), cursor' = cursor,
           \A r \in Commands : Pushed(r) => Pushed(r)'
    PROVE  CursorCounted'
<1>1. /\ Len(ReadLedger) \in Nat /\ Len(ReadLedger') \in Nat
      /\ Len(ReadLedger) <= Len(ReadLedger')
      /\ \A i \in Places : /\ ReadLedger'[i] = ReadLedger[i]
                            /\ ReadLedger[i] \in Commands
  BY GrowthKeepsRows
<1>2. CASE cursor # Unreadable
  <2>1. cursor \in Nat /\ cursor <= Len(ReadLedger)
    BY <1>2 DEF TypeOK, CursorCounted
  <2>2. ASSUME NEW i \in 1..cursor PROVE Pushed(ReadLedger[i])'
    <3>1. i \in Places
      BY <1>1, <2>1 DEF Places
    <3>2. Pushed(ReadLedger[i])
      BY <1>2 DEF CursorCounted
    <3>3. server'[ReadLedger[i]] > 0 /\ ReadLedger'[i] = ReadLedger[i]
      BY <1>1, <3>1, <3>2 DEF Pushed
    <3> QED
      BY <3>3 DEF Pushed
  <2> QED
    BY <1>1, <2>1, <2>2 DEF CursorCounted
<1>3. CASE cursor = Unreadable
  BY <1>3 DEF CursorCounted
<1> QED
  BY <1>2, <1>3

\* What the API inserts stays there.
LEMMA ServerGrows ==
    ASSUME TypeOK, NEW c \in Commands,
           \/ UNCHANGED server
           \/ Reached(c) < Len(rows[c]) /\ Inserted(NextRow(c))
    PROVE  \A r \in Commands :
              /\ Pushed(r) => Pushed(r)'
              /\ server'[r] # server[r] =>
                    /\ r = NextRow(c) /\ Reached(c) < Len(rows[c])
                    /\ server'[r] = server[r] + 1
<1>1. server \in [Commands -> Nat]
  BY DEF TypeOK
<1>2. CASE UNCHANGED server
  BY <1>2 DEF Pushed
<1>3. CASE Reached(c) < Len(rows[c]) /\ Inserted(NextRow(c))
  <2>1. NextRow(c) \in Commands
    BY <1>3, NextRowType
  <2> QED
    BY <1>1, <1>3, <2>1 DEF Pushed, Inserted
<1> QED
  BY <1>2, <1>3

\* What a step by c does to all but its own snapshot and to the cursor.
LEMMA OthersCounted ==
    ASSUME TypeOK, Lined, Progress, NEW c \in Commands, Grows(c), SnapshotCounted(c)',
           \A d \in Commands : SnapshotCounted(d),
           \A d \in Commands \ {c} :
              /\ pc'[d] = pc[d] /\ rows'[d] = rows[d] /\ start'[d] = start[d]
              /\ synced'[d] = synced[d],
           \A r \in Commands : Pushed(r) => Pushed(r)'
    PROVE  \A d \in Commands : SnapshotCounted(d)'
<1>1. ASSUME NEW d \in Commands \ {c} PROVE SnapshotCounted(d)'
  <2>1. /\ rows'[d] = rows[d] /\ Reached(d)' = Reached(d) /\ (Pushing(d)' => Pushing(d))
    BY DEF Reached, Pushing
  <2>2. SnapshotCounted(d) /\ Reached(d) <= Len(rows[d])
    BY DEF Progress, ProgressOf
  <2> QED
    BY <2>1, <2>2, SnapshotKept
<1> QED
  BY <1>1

LEMMA CountedPreserved ==
    ASSUME TypeOK, Lined, Progress, Placed, Counted, [Next]_vars
    PROVE  Counted'
<1> SUFFICES ASSUME Stays' PROVE CursorCounted' /\ \A c \in Commands : SnapshotCounted(c)'
  BY DEF Counted
<1> USE DEF fileVars, pushVars, storeVars, Goto
<1>1. Stays /\ CursorCounted /\ \A c \in Commands : SnapshotCounted(c) /\ ProgressOf(c)
  BY DisturbedGrows DEF Stays, Counted, Progress
<1>2. UNCHANGED ledger => ReadLedger' = ReadLedger
  BY DEF ReadLedger
<1> DEFINE Kept == CursorCounted' /\ \A c \in Commands : SnapshotCounted(c)'
           Others(c) == \A d \in Commands \ {c} :
              /\ pc'[d] = pc[d] /\ rows'[d] = rows[d] /\ start'[d] = start[d]
              /\ synced'[d] = synced[d]
           Holds == \A r \in Commands : Pushed(r) => Pushed(r)'
\* A step that leaves its command without a snapshot, and the cursor alone.
<1>3. ASSUME NEW c \in Commands, Grows(c), Holds, Others(c), UNCHANGED cursor,
             rows'[c] = <<>>, start'[c] = 0, synced'[c] = 0, ~Pushing(c)'
      PROVE  Kept
  <2>1. SnapshotCounted(c)'
    BY <1>3, NoSnapshot DEF Reached
  <2> QED
    BY <1>1, <1>3, <2>1, CursorKept, OthersCounted
<1>4. ASSUME NEW c \in Commands, NEW said, Ends(c, said), Grows(c), Holds, UNCHANGED cursor
      PROVE  Kept
  <2>1. /\ Others(c) /\ rows'[c] = <<>> /\ start'[c] = 0 /\ synced'[c] = 0
        /\ pc'[c] = "over"
    BY <1>4 DEF Ends, TypeOK
  <2> QED
    BY <1>3, <1>4, <2>1 DEF Pushing
<1>5. ASSUME NEW c \in Commands, NEW step \in {"acked", "ledgered", "signed in"}, ~Pushing(c),
             Goto(c, step), Grows(c), UNCHANGED <<cursor, server, pushVars>>
      PROVE  Kept
  <2>1. Holds /\ Others(c) /\ pc'[c] = step
    BY <1>5 DEF Pushed, TypeOK
  <2>2. rows'[c] = <<>> /\ start'[c] = 0 /\ synced'[c] = 0
    BY <1>1, <1>5 DEF ProgressOf
  <2> QED
    BY <1>3, <1>5, <2>1, <2>2 DEF Pushing
<1>6. (UNCHANGED ledger => \A c \in Commands : Grows(c)) /\ (UNCHANGED server => Holds)
  BY <1>2 DEF Grows, Pushed
<1>7. ASSUME NEW c \in Commands, NEW kind \in Kinds, ledger' = Written(c, kind),
             disturbed' = disturbed \cup RowLost
      PROVE  Grows(c)
  <2>1. RowLost = {}
    BY <1>7 DEF Stays, RowLost
  <2> QED
    BY <1>7, <2>1, OneWrite DEF Grows
<1>8. ASSUME NEW c \in Commands, RunSubjectVerb(c) PROVE Kept
  BY <1>4, <1>5, <1>6, <1>8 DEF RunSubjectVerb, Pushing
<1>9. ASSUME NEW c \in Commands, AppendLedger(c) PROVE Kept
  <2>1. Grows(c)
    BY <1>7, <1>9 DEF AppendLedger, Kinds
  <2> QED
    BY <1>5, <1>9, <2>1 DEF AppendLedger, Pushing
<1>10. ASSUME NEW c \in Commands, NEW kind \in Kinds, CutShort(c, kind) PROVE Kept
  <2>1. Grows(c)
    BY <1>7, <1>10 DEF CutShort
  <2> QED
    BY <1>4, <1>6, <1>10, <2>1 DEF CutShort
<1>11. ASSUME NEW c \in Commands, LoadAuth(c) PROVE Kept
  BY <1>4, <1>5, <1>6, <1>11 DEF LoadAuth, Pushing
<1>12. ASSUME NEW c \in Commands, ReadRows(c) PROVE Kept
  <2>1. CASE Decodes
    <3>1. /\ Others(c) /\ rows'[c] = ReadLedger /\ start'[c] = start[c]
          /\ synced'[c] = synced[c] /\ Grows(c) /\ Holds /\ UNCHANGED cursor
          /\ ReadLedger' = ReadLedger
      BY <1>2, <1>6, <1>12, <2>1 DEF ReadRows, TypeOK
    <3>2. Reached(c)' = 0
      <4>1. ProgressOf(c) /\ ~Pushing(c)
        BY <1>1, <1>12 DEF ReadRows, Pushing
      <4>2. start'[c] = 0 /\ synced'[c] = 0
        BY <3>1, <4>1 DEF ProgressOf
      <4> QED
        BY <4>2 DEF Reached
    <3>3. Len(ReadLedger) \in Nat
      BY RowsType
    <3>4. SnapshotCounted(c)'
      BY <3>1, <3>2, <3>3 DEF SnapshotCounted, Places
    <3> QED
      BY <1>1, <3>1, <3>4, CursorKept, OthersCounted
  <2>2. CASE ~Decodes
    BY <1>4, <1>6, <1>12, <2>2 DEF ReadRows
  <2> QED
    BY <2>1, <2>2
<1>13. ASSUME NEW c \in Commands, LoadCursor(c) PROVE Kept
  <2> DEFINE from == Smaller(LoadSyncState, Len(rows[c]))
  <2>1. /\ Others(c) /\ start'[c] = from /\ synced'[c] = synced[c] /\ rows'[c] = rows[c]
        /\ Grows(c) /\ Holds /\ UNCHANGED <<cursor, server>> /\ ReadLedger' = ReadLedger
    BY <1>2, <1>6, <1>13 DEF LoadCursor, TypeOK
  <2>2. synced[c] = 0 /\ Pushing(c) /\ SnapshotCounted(c)
    BY <1>1, <1>13 DEF ProgressOf, LoadCursor, Pushing
  <2>3. /\ from \in Nat /\ from <= Len(rows[c]) /\ Len(rows[c]) \in Nat
        /\ from > 0 => cursor # Unreadable /\ from <= cursor /\ cursor \in Nat
    BY DEF Smaller, LoadSyncState, TypeOK
  <2> HIDE DEF from
  <2>4. Reached(c)' = from
    BY <2>1, <2>2, <2>3 DEF Reached
  <2>5. ASSUME NEW i \in 1..from PROVE Pushed(rows[c][i])'
    <3>1. i \in 1..Len(rows[c]) /\ i \in 1..cursor /\ cursor # Unreadable
      BY <2>3
    <3>2. rows[c][i] = ReadLedger[i] /\ Pushed(ReadLedger[i])
      BY <1>1, <2>2, <3>1 DEF CursorCounted, SnapshotCounted
    <3> QED
      BY <2>1, <3>2 DEF Pushed
  <2>6. SnapshotCounted(c)'
    BY <2>1, <2>2, <2>4, <2>5 DEF SnapshotCounted, Places
  <2> QED
    BY <1>1, <2>1, <2>6, CursorKept, OthersCounted
<1>14. ASSUME NEW c \in Commands, PushRow(c) PROVE Kept
  <2>1. /\ Others(c) /\ start'[c] = start[c] /\ synced'[c] = synced[c] + 1
        /\ rows'[c] = rows[c] /\ pc'[c] = pc[c]
        /\ Grows(c) /\ UNCHANGED cursor /\ ReadLedger' = ReadLedger
    BY <1>2, <1>6, <1>14 DEF PushRow, TypeOK
  <2>2. Holds
    BY <1>14, ServerGrows DEF PushRow
  <2>3. /\ start[c] \in Nat /\ synced[c] \in Nat
        /\ Reached(c) + 1 \in 1..Len(rows[c]) /\ NextRow(c) \in Commands
    BY <1>14, NextRowType DEF PushRow, TypeOK
  <2>4. Reached(c)' = Reached(c) + 1 /\ Reached(c) \in Nat
    BY <2>1, <2>3 DEF Reached
  <2>5. server'[NextRow(c)] > 0
    BY <1>14, <2>3 DEF PushRow, Inserted, TypeOK
  <2>6. ASSUME NEW i \in 1..(Reached(c) + 1) PROVE server'[rows[c][i]] > 0
    <3>1. CASE i = Reached(c) + 1
      BY <2>5, <3>1 DEF NextRow
    <3>2. CASE i # Reached(c) + 1
      <4>1. i \in 1..Reached(c) /\ i \in 1..Len(rows[c])
        BY <2>3, <2>4, <3>2
      <4>2. rows[c][i] \in Commands /\ Pushed(rows[c][i])
        BY <1>1, <4>1, ElementOfSeq DEF SnapshotCounted, TypeOK
      <4> QED
        BY <2>2, <4>2 DEF Pushed
    <3> QED
      BY <3>1, <3>2
  <2>7. SnapshotCounted(c)'
    BY <1>1, <2>1, <2>4, <2>6 DEF SnapshotCounted, Places, Pushing, Pushed
  <2> QED
    BY <1>1, <2>1, <2>2, <2>7, CursorKept, OthersCounted
<1>15. ASSUME NEW c \in Commands, UNCHANGED <<ledger, pushVars>>, Holds,
              Pushing(c)' => Pushing(c), Others(c)
       PROVE  \A d \in Commands : SnapshotCounted(d)'
  <2>1. rows'[c] = rows[c] /\ Reached(c)' = Reached(c) /\ Reached(c) <= Len(rows[c])
    BY <1>1, <1>15 DEF ProgressOf, Reached
  <2>2. SnapshotCounted(c)'
    BY <1>1, <1>2, <1>15, <2>1, SnapshotKept
  <2> QED
    BY <1>1, <1>6, <1>15, <2>2, OthersCounted
<1>16. ASSUME NEW c \in Commands, PushFails(c) \/ AllPushed(c) PROVE Kept
  <2>1. Holds /\ UNCHANGED <<ledger, pushVars, cursor>> /\ Grows(c)
    BY <1>6, <1>16, ServerGrows DEF PushFails, AllPushed
  <2>2. Others(c) /\ Pushing(c)
    BY <1>16 DEF PushFails, AllPushed, TypeOK, Pushing
  <2> QED
    BY <1>1, <1>15, <2>1, <2>2, CursorKept
<1>17. ASSUME NEW c \in Commands, TruncateCursor(c) PROVE Kept
  <2>1. Holds /\ UNCHANGED <<ledger, pushVars>> /\ Others(c) /\ Pushing(c)
    BY <1>6, <1>17 DEF TruncateCursor, TypeOK, Pushing
  <2>2. CursorCounted'
    BY <1>17 DEF TruncateCursor, CursorCounted
  <2> QED
    BY <1>15, <2>1, <2>2
<1>18. ASSUME NEW c \in Commands, WriteCursor(c) PROVE Kept
  <2>1. /\ Holds /\ Grows(c) /\ cursor' = Reached(c) /\ UNCHANGED server
        /\ Ends(c, answer[c]) /\ ReadLedger' = ReadLedger
    BY <1>2, <1>6, <1>18 DEF WriteCursor
  <2>2. /\ Others(c) /\ rows'[c] = <<>> /\ start'[c] = 0 /\ synced'[c] = 0
        /\ pc'[c] = "over"
    BY <2>1 DEF Ends, TypeOK
  <2>3. \A d \in Commands : SnapshotCounted(d)'
    <3>1. SnapshotCounted(c)'
      BY <2>1, <2>2, NoSnapshot DEF Reached, Pushing
    <3> QED
      BY <1>1, <2>1, <2>2, <3>1, OthersCounted
  <2>4. /\ Reached(c) \in Nat /\ Len(rows[c]) \in Nat /\ Len(ReadLedger) \in Nat
        /\ Reached(c) <= Len(rows[c]) /\ Len(rows[c]) <= Len(ReadLedger)
    BY <1>1, RowsType DEF TypeOK, Reached, ProgressOf, SnapshotCounted
  <2>5. \A i \in 1..Reached(c) : Pushed(ReadLedger[i])
    BY <1>1, <2>4 DEF SnapshotCounted
  <2>6. CursorCounted'
    BY <2>1, <2>4, <2>5 DEF CursorCounted, Pushed
  <2> QED
    BY <2>3, <2>6
<1>19. ASSUME NEW c \in Commands, PushRaises(c) PROVE Kept
  <2>1. Holds /\ Grows(c) /\ UNCHANGED cursor /\ Ends(c, "error")
    BY <1>6, <1>19, ServerGrows DEF PushRaises
  <2> QED
    BY <1>4, <2>1
<1>20. ASSUME NEW c \in Commands, Dies(c) PROVE Kept
  BY <1>4, <1>6, <1>20 DEF Dies
<1>21. ASSUME UNCHANGED storeVars PROVE Kept
  <2>1. ReadLedger' = ReadLedger
    BY <1>2, <1>21
  <2> QED
    BY <1>1, <1>21, <2>1 DEF CursorCounted, SnapshotCounted, Pushed, Pushing, Reached, Places
<1> QED
  BY <1>8, <1>9, <1>10, <1>11, <1>12, <1>13, <1>14, <1>16, <1>17, <1>18, <1>19, <1>20,
     <1>21, NextCases

\* The next row stands in the ledger where its command has got to, and the
\* rows before it are pushed.
LEMMA NextRowPlace ==
    ASSUME TypeOK, Lined, NEW c \in Commands, SnapshotCounted(c), Reached(c) < Len(rows[c])
    PROVE  /\ Reached(c) + 1 \in Places
           /\ ReadLedger[Reached(c) + 1] = NextRow(c)
           /\ \A i \in Places : i < Reached(c) + 1 => Pushed(ReadLedger[i])
<1>1. Reached(c) \in Nat /\ Len(rows[c]) \in Nat /\ Len(ReadLedger) \in Nat
  <2>1. start[c] \in Nat /\ synced[c] \in Nat
    BY DEF TypeOK
  <2> QED
    BY <2>1, RowsType, SMTT(30) DEF TypeOK, Reached
<1>2. Reached(c) + 1 \in 1..Len(rows[c]) /\ Len(rows[c]) <= Len(ReadLedger)
  <2>1. Len(rows[c]) <= Len(ReadLedger)
    BY DEF SnapshotCounted
  <2> QED
    BY <1>1, <2>1
<1>3. \A i \in 1..Len(rows[c]) : rows[c][i] = ReadLedger[i]
  BY DEF SnapshotCounted
<1>4. ASSUME NEW i \in Places, i < Reached(c) + 1 PROVE Pushed(ReadLedger[i])
  <2>1. i \in 1..Reached(c) /\ i \in 1..Len(rows[c])
    BY <1>1, <1>4 DEF Places
  <2> QED
    BY <1>3, <2>1 DEF SnapshotCounted
<1> QED
  BY <1>1, <1>2, <1>3, <1>4 DEF Places, NextRow

LEMMA OrderPreserved ==
    ASSUME TypeOK, Lined, Progress, Placed, Counted, PushedInOrder, [Next]_vars
    PROVE  PushedInOrder'
<1> SUFFICES ASSUME Stays',
                    NEW i \in Places', NEW j \in Places', i < j, server'[ReadLedger'[j]] > 0
             PROVE  server'[ReadLedger'[i]] > 0
  BY DEF PushedInOrder, Places, Pushed
<1> USE DEF fileVars, pushVars, storeVars
<1>1. Stays /\ \A c \in Commands : SnapshotCounted(c)
  BY DisturbedGrows DEF Stays, Counted
<1>2. \A k, n \in Places : k < n /\ Pushed(ReadLedger[n]) => Pushed(ReadLedger[k])
  BY <1>1 DEF PushedInOrder, Places
\* A push.
<1>3. ASSUME NEW c \in Commands, UNCHANGED ledger,
             \/ UNCHANGED server
             \/ Reached(c) < Len(rows[c]) /\ Inserted(NextRow(c))
      PROVE  server'[ReadLedger'[i]] > 0
  <2>1. ReadLedger' = ReadLedger /\ i \in Places /\ j \in Places /\ i < j
    BY <1>3 DEF ReadLedger, Places
  <2>2. \A k \in Places : ReadLedger[k] \in Commands
    BY RowsType, ElementOfSeq DEF Places
  <2>3. \A r \in Commands :
          /\ Pushed(r) => Pushed(r)'
          /\ server'[r] # server[r] => r = NextRow(c) /\ Reached(c) < Len(rows[c])
    BY <1>3, ServerGrows
  <2>4. CASE Pushed(ReadLedger[j])
    <3>1. Pushed(ReadLedger[i]) /\ ReadLedger[i] \in Commands
      BY <1>2, <2>1, <2>2, <2>4
    <3>2. server'[ReadLedger[i]] > 0
      BY <2>3, <3>1 DEF Pushed
    <3> QED
      BY <2>1, <3>2
  <2>5. CASE ~Pushed(ReadLedger[j])
    <3>1. ReadLedger[j] = NextRow(c) /\ Reached(c) < Len(rows[c])
      BY <2>1, <2>2, <2>3, <2>5 DEF Pushed
    <3>2. /\ Reached(c) + 1 \in Places
          /\ ReadLedger[Reached(c) + 1] = NextRow(c)
          /\ \A k \in Places : k < Reached(c) + 1 => Pushed(ReadLedger[k])
      BY <1>1, <3>1, NextRowPlace
    <3>3. j = Reached(c) + 1
      BY <2>1, <3>1, <3>2 DEF Placed
    <3>4. Pushed(ReadLedger[i]) /\ ReadLedger[i] \in Commands
      BY <2>1, <2>2, <3>2, <3>3
    <3>5. server'[ReadLedger[i]] > 0
      BY <2>3, <3>4 DEF Pushed
    <3> QED
      BY <2>1, <3>5
  <2> QED
    BY <2>4, <2>5
\* A write.
<1>4. ASSUME NEW c \in Commands, NEW kind \in Kinds, ledger' = Written(c, kind),
             disturbed' = disturbed \cup RowLost, UNCHANGED server, pc[c] = "acked"
      PROVE  server'[ReadLedger'[i]] > 0
  <2>1. RowLost = {}
    BY <1>4 DEF Stays, RowLost
  <2>2. Grows(c)
    BY <1>4, <2>1, OneWrite DEF Grows
  <2>3. /\ Len(ReadLedger) \in Nat
        /\ \A k \in Places : ReadLedger'[k] = ReadLedger[k] /\ ReadLedger[k] \in Commands
        /\ \A k \in Places' : k \in Places \/ (k = Len(ReadLedger) + 1 /\ ReadLedger'[k] = c)
        /\ Len(ReadLedger') <= Len(ReadLedger) + 1 /\ Len(ReadLedger') \in Nat
    BY <2>2, GrowthKeepsRows
  <2>4. ~(server[c] > 0)
    BY <1>4 DEF Placed, Recorded
  <2>5. j \in Places
    BY <1>4, <2>3, <2>4
  <2>6. i \in Places
    BY <2>3, <2>5 DEF Places
  <2> QED
    BY <1>2, <1>4, <2>3, <2>5, <2>6 DEF Pushed
<1>5. ASSUME NEW c \in Commands,
             \/ RunSubjectVerb(c) \/ LoadAuth(c) \/ ReadRows(c) \/ LoadCursor(c)
             \/ AllPushed(c) \/ TruncateCursor(c) \/ WriteCursor(c) \/ Dies(c)
      PROVE  server'[ReadLedger'[i]] > 0
  BY <1>3, <1>5 DEF RunSubjectVerb, LoadAuth, ReadRows, LoadCursor, AllPushed,
                    TruncateCursor, WriteCursor, Dies
<1>6. ASSUME NEW c \in Commands, PushRow(c) \/ PushFails(c) \/ PushRaises(c)
      PROVE  server'[ReadLedger'[i]] > 0
  BY <1>3, <1>6 DEF PushRow, PushFails, PushRaises
<1>7. ASSUME NEW c \in Commands, AppendLedger(c) PROVE server'[ReadLedger'[i]] > 0
  BY <1>4, <1>7 DEF AppendLedger, Kinds
<1>8. ASSUME NEW c \in Commands, NEW kind \in Kinds, CutShort(c, kind)
      PROVE  server'[ReadLedger'[i]] > 0
  BY <1>4, <1>8 DEF CutShort
<1>9. ASSUME UNCHANGED storeVars PROVE server'[ReadLedger'[i]] > 0
  <2>1. ReadLedger' = ReadLedger /\ UNCHANGED server
    BY <1>9 DEF ReadLedger
  <2> QED
    BY <1>2, <2>1 DEF Pushed, Places
<1> QED
  BY <1>5, <1>6, <1>7, <1>8, <1>9, NextCases

\* What is read after a step is a list of rows again.
LEMMA RowsStayTyped ==
    ASSUME TypeOK, Lined, [Next]_vars
    PROVE  ReadLedger' \in Seq(Commands)
<1>1. ReadLedger \in Seq(Commands)
  BY RowsType
<1>2. CASE UNCHANGED ledger
  BY <1>1, <1>2 DEF ReadLedger
<1>3. ASSUME NEW c \in Commands, NEW kind \in Kinds, ledger' = Written(c, kind)
      PROVE  ReadLedger' \in Seq(Commands)
  <2>1. Append(ReadLedger, c) \in Seq(Commands)
    BY <1>1
  <2>2. \/ ReadLedger' = ReadLedger \/ ReadLedger' = Append(ReadLedger, c)
        \/ ReadLedger' \in Seq(Commands)
    BY <1>3, OneWrite, Zenon
  <2> QED
    BY <1>1, <2>1, <2>2, Zenon
<1>4. ASSUME NEW c \in Commands, AppendLedger(c) PROVE ReadLedger' \in Seq(Commands)
  BY <1>3, <1>4 DEF AppendLedger, Kinds
<1>5. ASSUME NEW c \in Commands, NEW kind \in Kinds, CutShort(c, kind)
      PROVE  ReadLedger' \in Seq(Commands)
  BY <1>3, <1>5 DEF CutShort
<1>6. ASSUME NEW c \in Commands,
             \/ RunSubjectVerb(c) \/ LoadAuth(c) \/ ReadRows(c) \/ LoadCursor(c)
             \/ PushRow(c) \/ AllPushed(c)
      PROVE  UNCHANGED ledger
  BY <1>6 DEF RunSubjectVerb, LoadAuth, ReadRows, LoadCursor, PushRow, AllPushed, fileVars
<1>7. ASSUME NEW c \in Commands,
             \/ PushFails(c) \/ PushRaises(c) \/ TruncateCursor(c) \/ WriteCursor(c) \/ Dies(c)
      PROVE  UNCHANGED ledger
  BY <1>7 DEF PushFails, PushRaises, TruncateCursor, WriteCursor, Dies, fileVars
<1> QED
  BY <1>2, <1>4, <1>5, <1>6, <1>7, NextCases DEF storeVars, fileVars

\* Only a command that found all rows pushed comes to say so.
LEMMA OkPreserved ==
    ASSUME TypeOK, Lined, Progress, Placed, Counted, OkMeansPushed, [Next]_vars
    PROVE  OkMeansPushed'
<1>0. ASSUME NEW d \in ToSet(ReadLedger') PROVE \E i \in Places' : ReadLedger'[i] = d
  <2>1. ReadLedger' \in Seq(Commands)
    BY RowsStayTyped
  <2> QED
    BY <2>1 DEF ToSet, Places
<1> SUFFICES ASSUME Stays', NEW d \in Commands, answer'[d] = "ok",
                    NEW i \in Places', ReadLedger'[i] = d
             PROVE  server'[d] > 0
  BY <1>0 DEF OkMeansPushed, Pushed
<1> USE DEF fileVars, pushVars, storeVars, Goto
<1>1. Stays /\ \A c \in Commands : SnapshotCounted(c) /\ ProgressOf(c)
  BY DisturbedGrows DEF Stays, Counted, Progress
<1>2. UNCHANGED ledger => i \in Places /\ ReadLedger[i] = d
  BY DEF ReadLedger, Places
<1>3. (\E k \in Places : ReadLedger[k] = d) /\ answer[d] = "ok" => server[d] > 0
  BY <1>1, InLedger DEF OkMeansPushed, Pushed
<1>4. ASSUME UNCHANGED ledger, answer[d] = "ok",
             NEW c \in Commands,
             \/ UNCHANGED server
             \/ Reached(c) < Len(rows[c]) /\ Inserted(NextRow(c))
      PROVE  server'[d] > 0
  BY <1>2, <1>3, <1>4, ServerGrows DEF Pushed
<1>5. ASSUME NEW c \in Commands, RunSubjectVerb(c) \/ LoadAuth(c)
      PROVE  server'[d] > 0
  <2>1. answer[d] = "ok"
    BY <1>5 DEF RunSubjectVerb, LoadAuth, Ends, TypeOK
  <2> QED
    BY <1>4, <1>5, <2>1 DEF RunSubjectVerb, LoadAuth
<1>6. ASSUME NEW c \in Commands,
             \/ ReadRows(c) \/ LoadCursor(c) \/ TruncateCursor(c) \/ WriteCursor(c) \/ Dies(c)
      PROVE  server'[d] > 0
  <2>1. answer[d] = "ok"
    BY <1>6 DEF ReadRows, LoadCursor, TruncateCursor, WriteCursor, Dies, Ends, TypeOK
  <2> QED
    BY <1>4, <1>6, <2>1 DEF ReadRows, LoadCursor, TruncateCursor, WriteCursor, Dies
<1>7. ASSUME NEW c \in Commands, PushRow(c) \/ PushFails(c) \/ PushRaises(c)
      PROVE  server'[d] > 0
  <2>1. answer[d] = "ok"
    BY <1>7 DEF PushRow, PushFails, PushRaises, Ends, TypeOK
  <2> QED
    BY <1>4, <1>7, <2>1 DEF PushRow, PushFails, PushRaises
<1>8. ASSUME NEW c \in Commands, AllPushed(c) PROVE server'[d] > 0
  <2>1. CASE d = c
    <3>1. /\ Pushing(c) /\ Reached(c) = Len(rows[c]) /\ UNCHANGED <<ledger, server>>
          /\ SnapshotCounted(c)
      BY <1>1, <1>8 DEF AllPushed, Pushing
    <3>2. PICK j \in 1..Len(rows[c]) : rows[c][j] = c
      BY <1>2, <2>1, <3>1 DEF SnapshotCounted
    <3>3. Pushed(c)
      BY <3>1, <3>2 DEF SnapshotCounted
    <3> QED
      BY <2>1, <3>1, <3>3 DEF Pushed
  <2>2. CASE d # c
    <3>1. answer[d] = "ok"
      BY <1>8, <2>2 DEF AllPushed, TypeOK
    <3> QED
      BY <1>4, <1>8, <3>1 DEF AllPushed
  <2> QED
    BY <2>1, <2>2
<1>9. ASSUME NEW c \in Commands, NEW kind \in Kinds, ledger' = Written(c, kind),
             disturbed' = disturbed \cup RowLost, UNCHANGED server, pc[c] = "acked",
             answer'[c] \in {answer[c], "none"},
             \A e \in Commands \ {c} : answer'[e] = answer[e]
      PROVE  server'[d] > 0
  <2>1. RowLost = {}
    BY <1>9 DEF Stays, RowLost
  <2>2. Grows(c)
    BY <1>9, <2>1, OneWrite DEF Grows
  <2>3. answer'[c] = "none"
    BY <1>1, <1>9 DEF ProgressOf
  <2>4. d # c /\ answer[d] = "ok"
    BY <1>9, <2>3
  <2>5. i \in Places /\ ReadLedger[i] = d
    BY <2>2, <2>4, GrowthKeepsRows
  <2> QED
    BY <1>3, <1>9, <2>4, <2>5
<1>10. ASSUME NEW c \in Commands, AppendLedger(c) PROVE server'[d] > 0
  BY <1>9, <1>10 DEF AppendLedger, Kinds
<1>11. ASSUME NEW c \in Commands, NEW kind \in Kinds, CutShort(c, kind)
       PROVE  server'[d] > 0
  <2>1. answer'[c] = "none" /\ \A e \in Commands \ {c} : answer'[e] = answer[e]
    BY <1>11 DEF CutShort, Ends, TypeOK
  <2> QED
    BY <1>9, <1>11, <2>1 DEF CutShort
<1>12. ASSUME UNCHANGED storeVars PROVE server'[d] > 0
  BY <1>2, <1>3, <1>12
<1> QED
  BY <1>5, <1>6, <1>7, <1>8, <1>10, <1>11, <1>12, NextCases

-----------------------------------------------------------------------------
(* As long as nothing worse than a lost line happened *)

\* A row is where it was, or new and not pushed.
NoNewPushed ==
    \A i \in Places' :
        \/ i \in Places /\ ReadLedger'[i] = ReadLedger[i]
        \/ ~(server'[ReadLedger'[i]] > 0)

LEMMA WriteIsNotPushed ==
    ASSUME TypeOK, Lined, Placed, NEW c \in Commands, NEW kind \in Kinds,
           pc[c] = "acked", ledger' = Written(c, kind), UNCHANGED server
    PROVE  NoNewPushed
<1>1. ReadLedger \in Seq(Commands)
  BY RowsType
<1>2. ~(server[c] > 0)
  BY DEF Placed, Recorded
<1>3. CASE RowLost = {}
  <2>1. Grows(c)
    BY <1>3, OneWrite DEF Grows
  <2>2. /\ \A i \in Places : ReadLedger'[i] = ReadLedger[i]
        /\ \A i \in Places' : i \in Places \/ (i = Len(ReadLedger) + 1 /\ ReadLedger'[i] = c)
    BY <2>1, GrowthKeepsRows
  <2> QED
    BY <1>2, <2>2 DEF NoNewPushed
<1>4. CASE RowLost # {}
  <2>1. PICK r \in Commands :
           ReadLedger' \in Seq(Commands) /\ ReadLedger = Append(ReadLedger', r)
    BY <1>4, OneWrite
  <2>2. /\ Len(ReadLedger') \in Nat /\ Len(ReadLedger) = Len(ReadLedger') + 1
        /\ \A i \in 1..Len(ReadLedger') : ReadLedger'[i] = ReadLedger[i]
    BY <2>1
  <2> QED
    BY <2>2 DEF NoNewPushed, Places
<1> QED
  BY <1>3, <1>4

\* A step of a command that does not push, before or after, keeps everything
\* the commands that push rely on.
LEMMA AloneKept ==
    ASSUME OnePushes, CursorAhead, \A d \in Commands : CommandAhead(d),
           NoNewPushed, UNCHANGED <<server, cursor>>,
           \A d \in Commands : (Pushing(d) \/ Pushing(d)') =>
              /\ pc'[d] = pc[d] /\ rows'[d] = rows[d]
              /\ start'[d] = start[d] /\ synced'[d] = synced[d]
    PROVE  OnePushes' /\ CursorAhead' /\ \A d \in Commands : CommandAhead(d)'
<1>1. \A d \in Commands : Pushing(d)' <=> Pushing(d)
  BY DEF Pushing
<1>2. OnePushes'
  BY <1>1 DEF OnePushes
<1>3. CursorAhead'
  <2> SUFFICES ASSUME \A d \in Commands : Pushing(d)' => pc'[d] = "read"
               PROVE  /\ cursor' # Unreadable
                      /\ \A i \in Places' : i > cursor' => ~(server'[ReadLedger'[i]] > 0)
    BY DEF CursorAhead, Pushed
  <2>1. \A d \in Commands : Pushing(d) => pc[d] = "read"
    BY <1>1
  <2>2. /\ cursor # Unreadable
        /\ \A i \in Places : i > cursor => ~(server[ReadLedger[i]] > 0)
    BY <2>1 DEF CursorAhead, Pushed
  <2> QED
    BY <2>2 DEF NoNewPushed
<1>4. ASSUME NEW d \in Commands PROVE CommandAhead(d)'
  <2>1. CommandAhead(d)
    OBVIOUS
  <2>2. CASE ~Pushing(d)
    BY <1>1, <2>2 DEF CommandAhead, Pushing
  <2>3. CASE Pushing(d)
    <3>1. /\ pc'[d] = pc[d] /\ rows'[d] = rows[d] /\ Reached(d)' = Reached(d)
          /\ Smaller(cursor, Len(rows[d]))' = Smaller(cursor, Len(rows[d]))
      BY <2>3 DEF Reached, Smaller
    <3>2. ASSUME NEW n, Unpushed(d, n)
          PROVE  /\ \A i \in Places' : i > n => ~(server'[ReadLedger'[i]] > 0)
                 /\ \A i \in 1..Len(rows'[d]) : i > n => ~(server'[rows'[d][i]] > 0)
      BY <3>1, <3>2 DEF Unpushed, NoNewPushed, Pushed
    <3> QED
      BY <2>1, <3>1, <3>2 DEF CommandAhead, Unpushed, Pushing, Pushed
  <2> QED
    BY <2>2, <2>3
<1> QED
  BY <1>2, <1>3, <1>4

LEMMA AlonePreserved ==
    ASSUME TypeOK, Lined, Progress, Placed, Alone, [Next]_vars
    PROVE  Alone'
<1> SUFFICES ASSUME Calm'
             PROVE  OnePushes' /\ CursorAhead' /\ \A d \in Commands : CommandAhead(d)'
  BY DEF Alone
<1> USE DEF fileVars, pushVars, storeVars, Goto
<1> DEFINE Kept == OnePushes' /\ CursorAhead' /\ \A d \in Commands : CommandAhead(d)'
           Others(c) == \A d \in Commands \ {c} :
              /\ pc'[d] = pc[d] /\ rows'[d] = rows[d] /\ start'[d] = start[d]
              /\ synced'[d] = synced[d]
<1>1. /\ Calm /\ OnePushes /\ CursorAhead /\ \A d \in Commands : CommandAhead(d)
      /\ \A d \in Commands : ProgressOf(d)
  BY DisturbedGrows DEF Calm, Alone, Progress
<1>2. UNCHANGED ledger => ReadLedger' = ReadLedger /\ Places' = Places
  BY DEF ReadLedger, Places
<1>3. ASSUME UNCHANGED <<ledger, server>> PROVE NoNewPushed
  BY <1>2, <1>3 DEF NoNewPushed
<1>4. /\ \A i \in Places : ReadLedger[i] \in Commands
      /\ \A d \in Commands : rows[d] \in Seq(Commands) /\ Len(rows[d]) \in Nat
      /\ \A d \in Commands : \A i \in 1..Len(rows[d]) : rows[d][i] \in Commands
      /\ \A d \in Commands : start[d] \in Nat /\ synced[d] \in Nat
      /\ Len(ReadLedger) \in Nat
  BY RowsType, ElementOfSeq DEF TypeOK, Places
\* A step outside push_pending.
<1>5. ASSUME NEW c \in Commands, ~Pushing(c), ~Pushing(c)', Others(c), NoNewPushed,
             UNCHANGED <<server, cursor>>
      PROVE  Kept
  BY <1>1, <1>5, AloneKept
<1>6. ASSUME NEW c \in Commands, NEW said, Ends(c, said), ~Pushing(c), NoNewPushed,
             UNCHANGED <<server, cursor>>
      PROVE  Kept
  <2>1. Others(c) /\ pc'[c] = "over"
    BY <1>6 DEF Ends, TypeOK
  <2> QED
    BY <1>5, <1>6, <2>1 DEF Pushing
<1>7. ASSUME NEW c \in Commands, RunSubjectVerb(c) PROVE Kept
  <2>1. ~Pushing(c) /\ NoNewPushed /\ UNCHANGED <<server, cursor>>
    BY <1>3, <1>7 DEF RunSubjectVerb, Pushing
  <2>2. CASE ~Ends(c, "error")
    <3>1. Others(c) /\ pc'[c] = "acked"
      BY <1>7, <2>2 DEF RunSubjectVerb, TypeOK
    <3> QED
      BY <1>5, <2>1, <3>1 DEF Pushing
  <2> QED
    BY <1>6, <2>1, <2>2
<1>8. ASSUME NEW c \in Commands, AppendLedger(c) PROVE Kept
  <2>1. ~Pushing(c) /\ UNCHANGED <<server, cursor>>
    BY <1>8 DEF AppendLedger, Pushing
  <2>2. NoNewPushed
    BY <1>8, WriteIsNotPushed DEF AppendLedger, Kinds
  <2>3. Others(c) /\ pc'[c] = "ledgered"
    BY <1>8 DEF AppendLedger, TypeOK
  <2> QED
    BY <1>5, <2>1, <2>2, <2>3 DEF Pushing
<1>9. ASSUME NEW c \in Commands, NEW kind \in Kinds, CutShort(c, kind) PROVE Kept
  <2>1. ~Pushing(c) /\ UNCHANGED <<server, cursor>> /\ Ends(c, "none")
    BY <1>9 DEF CutShort, Pushing
  <2>2. NoNewPushed
    BY <1>9, WriteIsNotPushed DEF CutShort
  <2> QED
    BY <1>6, <2>1, <2>2
<1>10. ASSUME NEW c \in Commands, LoadAuth(c) PROVE Kept
  <2>1. ~Pushing(c) /\ NoNewPushed /\ UNCHANGED <<server, cursor>>
    BY <1>3, <1>10 DEF LoadAuth, Pushing
  <2>2. CASE auth \in Accounts
    <3>1. Others(c) /\ pc'[c] = "signed in"
      BY <1>10, <2>2 DEF LoadAuth, TypeOK
    <3> QED
      BY <1>5, <2>1, <3>1 DEF Pushing
  <2>3. CASE auth \notin Accounts
    BY <1>6, <1>10, <2>1, <2>3 DEF LoadAuth
  <2> QED
    BY <2>2, <2>3
<1>11. ASSUME NEW c \in Commands, ReadRows(c) PROVE Kept
  <2>1. ~Pushing(c) /\ NoNewPushed /\ UNCHANGED <<server, cursor>>
    BY <1>3, <1>11 DEF ReadRows, Pushing
  <2>2. CASE ~Decodes
    BY <1>6, <1>11, <2>1, <2>2 DEF ReadRows
  <2>3. CASE Decodes
    <3>1. \A d \in Commands : ~Pushing(d)
      BY <1>11 DEF ReadRows, Calm
    <3>2. /\ Others(c) /\ pc'[c] = "read" /\ rows'[c] = ReadLedger
          /\ ReadLedger' = ReadLedger /\ Places' = Places
      BY <1>2, <1>11, <2>3 DEF ReadRows, TypeOK
    <3>3. /\ cursor # Unreadable /\ cursor \in Nat
          /\ \A i \in Places : i > cursor => ~Pushed(ReadLedger[i])
      BY <1>1, <3>1 DEF CursorAhead, TypeOK
    <3>4. \A d \in Commands : Pushing(d)' => d = c
      BY <3>1, <3>2 DEF Pushing
    <3>5. CursorAhead' /\ OnePushes'
      BY <2>1, <3>2, <3>3, <3>4 DEF CursorAhead, OnePushes, Pushed
    <3>6. \A i \in Places : i > Smaller(cursor, Len(ReadLedger)) => ~Pushed(ReadLedger[i])
      BY <1>4, <3>3 DEF Smaller, Places
    <3>7. CommandAhead(c)'
      BY <2>1, <3>2, <3>6 DEF CommandAhead, Unpushed, Pushed, Places, Smaller
    <3>8. \A d \in Commands \ {c} : CommandAhead(d)'
      BY <3>4 DEF CommandAhead, Pushing
    <3> QED
      BY <3>5, <3>7, <3>8
  <2> QED
    BY <2>2, <2>3
\* A step of the command that pushes, which stays within push_pending.
<1>12. ASSUME NEW c \in Commands, Pushing(c), Others(c), pc'[c] \in {"pushing", "saving", "writing"},
              \A i \in Places' : i > Reached(c)' => ~(server'[ReadLedger'[i]] > 0),
              \A i \in 1..Len(rows'[c]) : i > Reached(c)' => ~(server'[rows'[c][i]] > 0)
       PROVE  Kept
  <2>1. \A d \in Commands : Pushing(d)' <=> d = c
    BY <1>1, <1>12 DEF OnePushes, Pushing
  <2>2. CursorAhead' /\ OnePushes'
    BY <1>12, <2>1 DEF CursorAhead, OnePushes
  <2>3. CommandAhead(c)'
    BY <1>12 DEF CommandAhead, Unpushed, Pushed
  <2>4. \A d \in Commands \ {c} : CommandAhead(d)'
    BY <2>1 DEF CommandAhead, Pushing
  <2> QED
    BY <2>2, <2>3, <2>4
<1>13. ASSUME NEW c \in Commands, LoadCursor(c) PROVE Kept
  <2> DEFINE from == Smaller(cursor, Len(rows[c]))
  <2>1. Pushing(c) /\ pc[c] = "read" /\ UNCHANGED <<ledger, server>>
    BY <1>13 DEF LoadCursor, Pushing
  <2>2. cursor # Unreadable /\ Unpushed(c, from) /\ synced[c] = 0
    BY <1>1, <2>1 DEF CursorAhead, CommandAhead, OnePushes, ProgressOf
  <2>3. /\ Others(c) /\ pc'[c] = "pushing" /\ start'[c] = from
        /\ synced'[c] = 0 /\ rows'[c] = rows[c]
    BY <1>13, <2>2 DEF LoadCursor, LoadSyncState, TypeOK
  <2>4. from \in Nat
    BY <1>4, <2>2 DEF Smaller, TypeOK
  <2> HIDE DEF from
  <2>5. Reached(c)' = from
    BY <2>3, <2>4 DEF Reached
  <2> QED
    BY <1>2, <1>12, <2>1, <2>2, <2>3, <2>5 DEF Unpushed, Pushed
<1>14. ASSUME NEW c \in Commands, PushRow(c) PROVE Kept
  <2>1. /\ Pushing(c) /\ pc[c] = "pushing" /\ UNCHANGED ledger
        /\ Reached(c) < Len(rows[c]) /\ Inserted(NextRow(c))
    BY <1>14 DEF PushRow, Pushing
  <2>2. /\ Others(c) /\ pc'[c] = "pushing" /\ start'[c] = start[c]
        /\ synced'[c] = synced[c] + 1 /\ rows'[c] = rows[c]
    BY <1>14 DEF PushRow, TypeOK
  <2>3. Reached(c)' = Reached(c) + 1 /\ Reached(c) \in Nat
    BY <1>4, <2>2 DEF Reached
  <2>4. Unpushed(c, Reached(c))
    BY <1>1, <2>1 DEF CommandAhead
  <2>5. \A r \in Commands : server'[r] # server[r] => r = NextRow(c)
    BY <2>1, ServerGrows
  <2>6. NextRow(c) = rows[c][Reached(c) + 1] /\ Reached(c) + 1 \in 1..Len(rows[c])
    BY <1>4, <2>1, <2>3 DEF NextRow
  <2>7. ASSUME NEW i \in Places, i > Reached(c) + 1
        PROVE  ~(server'[ReadLedger[i]] > 0)
    <3>1. ReadLedger[i] \in Commands /\ ~(server[ReadLedger[i]] > 0)
      BY <1>4, <2>3, <2>4, <2>7 DEF Unpushed, Pushed, Places
    <3>2. ReadLedger[i] # NextRow(c)
      BY <2>3, <2>6, <2>7 DEF Placed, Places
    <3> QED
      BY <2>5, <3>1, <3>2
  <2>8. ASSUME NEW i \in 1..Len(rows[c]), i > Reached(c) + 1
        PROVE  ~(server'[rows[c][i]] > 0)
    <3>1. rows[c][i] \in Commands /\ ~(server[rows[c][i]] > 0)
      BY <1>4, <2>3, <2>4, <2>8 DEF Unpushed, Pushed
    <3>2. rows[c][i] # NextRow(c)
      BY <2>3, <2>6, <2>8 DEF Placed
    <3> QED
      BY <2>5, <3>1, <3>2
  <2> QED
    BY <1>2, <1>12, <2>1, <2>2, <2>3, <2>7, <2>8
<1>15. ASSUME NEW c \in Commands, NEW step \in {"saving", "writing"},
              pc[c] \in {"pushing", "saving"}, Goto(c, step),
              UNCHANGED <<ledger, server, pushVars>>
       PROVE  Kept
  <2>1. /\ Pushing(c) /\ pc[c] # "read" /\ Others(c) /\ pc'[c] = step
        /\ rows'[c] = rows[c] /\ Reached(c)' = Reached(c)
    BY <1>15 DEF Pushing, TypeOK, Reached
  <2>2. Unpushed(c, Reached(c))
    BY <1>1, <2>1 DEF CommandAhead
  <2>3. /\ \A i \in Places' : i > Reached(c)' => ~(server'[ReadLedger'[i]] > 0)
        /\ \A i \in 1..Len(rows'[c]) : i > Reached(c)' => ~(server'[rows'[c][i]] > 0)
    BY <1>2, <1>15, <2>1, <2>2 DEF Unpushed, Pushed
  <2>4. pc'[c] \in {"pushing", "saving", "writing"}
    BY <1>15, <2>1
  <2> QED
    BY <1>12, <2>1, <2>3, <2>4
<1>16. ASSUME NEW c \in Commands, PushFails(c) PROVE Kept
  <2>1. "lost answer" \notin disturbed'
    BY DEF Calm
  <2>2. UNCHANGED server
    BY <1>16, <2>1 DEF PushFails
  <2>3. pc[c] = "pushing" /\ Goto(c, "saving") /\ UNCHANGED <<ledger, server, pushVars>>
    BY <1>16, <2>2 DEF PushFails
  <2> QED
    BY <1>15, <2>3
<1>17. ASSUME NEW c \in Commands, AllPushed(c) \/ TruncateCursor(c) PROVE Kept
  BY <1>15, <1>17 DEF AllPushed, TruncateCursor
<1>18. ASSUME NEW c \in Commands, PushRaises(c) PROVE FALSE
  <2>1. "raised" \notin disturbed'
    BY DEF Calm
  <2> QED
    BY <1>18, <2>1 DEF PushRaises
<1>19. ASSUME NEW c \in Commands, Dies(c) PROVE Kept
  <2>1. ~Pushing(c) /\ UNCHANGED <<ledger, server, cursor>> /\ Ends(c, "none")
    BY <1>19 DEF Dies, Calm
  <2> QED
    BY <1>3, <1>6, <2>1
<1>20. ASSUME NEW c \in Commands, WriteCursor(c) PROVE Kept
  <2>1. /\ Pushing(c) /\ pc[c] # "read" /\ cursor' = Reached(c)
        /\ UNCHANGED <<ledger, server>>
    BY <1>20 DEF WriteCursor, Pushing
  <2>2. Others(c) /\ pc'[c] = "over"
    BY <1>20 DEF WriteCursor, Ends, TypeOK
  <2>3. \A d \in Commands : ~Pushing(d)'
    BY <1>1, <2>1, <2>2 DEF OnePushes, Pushing
  <2>4. Reached(c) \in Nat /\ Unpushed(c, Reached(c))
    BY <1>1, <1>4, <2>1 DEF CommandAhead, Reached
  <2>5. cursor' \in Nat /\ cursor' # Unreadable /\ cursor' = Reached(c)
    BY <2>1, <2>4, StoreAssumption
  <2>6. \A i \in Places' : i > cursor' => ~(server'[ReadLedger'[i]] > 0)
    BY <1>2, <2>1, <2>4, <2>5 DEF Unpushed, Pushed
  <2>7. CursorAhead'
    BY <2>5, <2>6 DEF CursorAhead, Pushed
  <2> QED
    BY <2>3, <2>7 DEF OnePushes, CommandAhead, Pushing
<1>21. ASSUME UNCHANGED storeVars PROVE Kept
  <2>1. NoNewPushed
    BY <1>3, <1>21
  <2> QED
    BY <1>1, <1>21, <2>1, AloneKept
<1> QED
  BY <1>7, <1>8, <1>9, <1>10, <1>11, <1>13, <1>14, <1>16, <1>17, <1>18, <1>19, <1>20,
     <1>21, NextCases

\* A row is inserted a second time only by a command that stands before it
\* though it is pushed, which takes a mishap.
LEMMA OncePreserved ==
    ASSUME TypeOK, Alone, OnceUnlessDisturbed, [Next]_vars
    PROVE  OnceUnlessDisturbed'
<1> SUFFICES ASSUME Calm', NEW r \in Commands PROVE server'[r] <= 1
  BY DEF OnceUnlessDisturbed, Calm
<1>1. Calm /\ \A d \in Commands : CommandAhead(d)
  BY DisturbedGrows DEF Calm, Alone
<1>2. server[r] \in Nat /\ server[r] <= 1
  BY <1>1 DEF Calm, OnceUnlessDisturbed, TypeOK
<1>3. ASSUME NEW c \in Commands, PushRow(c) PROVE server'[r] <= 1
  <2>1. pc[c] = "pushing" /\ Reached(c) < Len(rows[c]) /\ Inserted(NextRow(c))
    BY <1>3 DEF PushRow
  <2>2. Unpushed(c, Reached(c))
    BY <1>1, <2>1 DEF CommandAhead, Pushing
  <2>3. Reached(c) \in Nat /\ Reached(c) + 1 \in 1..Len(rows[c])
    <3>1. start[c] \in Nat /\ synced[c] \in Nat
      BY DEF TypeOK
    <3> QED
      BY <2>1, <3>1, NextRowType DEF Reached
  <2>4. ~Pushed(NextRow(c))
    BY <2>2, <2>3 DEF Unpushed, NextRow
  <2>5. server'[r] = server[r] \/ (r = NextRow(c) /\ server'[r] = server[r] + 1)
    BY <2>1, ServerGrows DEF Pushed
  <2> QED
    BY <1>2, <2>4, <2>5 DEF Pushed
<1>4. ASSUME NEW c \in Commands, PushFails(c) PROVE server'[r] <= 1
  <2>1. "lost answer" \notin disturbed'
    BY DEF Calm
  <2> QED
    BY <1>2, <1>4, <2>1 DEF PushFails
<1>5. ASSUME NEW c \in Commands, PushRaises(c) PROVE server'[r] <= 1
  <2>1. "raised" \notin disturbed'
    BY DEF Calm
  <2> QED
    BY <1>5, <2>1 DEF PushRaises
<1>6. ASSUME NEW c \in Commands,
             \/ RunSubjectVerb(c) \/ AppendLedger(c) \/ LoadAuth(c)
             \/ ReadRows(c) \/ LoadCursor(c) \/ AllPushed(c)
             \/ TruncateCursor(c) \/ WriteCursor(c) \/ Dies(c)
             \/ \E kind \in Kinds : CutShort(c, kind)
      PROVE  server'[r] <= 1
  <2>1. UNCHANGED server
    BY <1>6 DEF RunSubjectVerb, AppendLedger, LoadAuth, ReadRows, LoadCursor, AllPushed,
                TruncateCursor, WriteCursor, Dies, CutShort
  <2> QED
    BY <1>2, <2>1
<1>7. UNCHANGED storeVars => server'[r] <= 1
  BY <1>2 DEF storeVars
<1> QED
  BY <1>3, <1>4, <1>5, <1>6, <1>7, NextCases

LEMMA InitIInv == Init => IInv
<1> SUFFICES ASSUME Init PROVE IInv
  OBVIOUS
<1>1. ledger = <<>> /\ ledger \in Seq(Lines)
  BY DEF Init
<1>2. TypeOK /\ Lined
  BY <1>1, StoreAssumption DEF Init, TypeOK, Lined, Steps, Answers
<1>3. RowLines(ledger) = {}
  BY <1>1 DEF RowLines
<1>4. ReadLedger = <<>>
  <2>1. ReadLedger \in Seq(Commands)
    BY <1>2, RowsType
  <2>2. [i \in 1..Len(ledger) |-> ledger[i].of[1]] \in Seq({ledger[i].of[1] : i \in 1..Len(ledger)})
    BY <1>1
  <2>3. Len(ReadLedger) = Cardinality({})
    BY <1>3, <2>2, PickedType DEF ReadLedger, RowsOf
  <2>4. Len(ReadLedger) = 0
    BY <2>3, FS_EmptySet
  <2> QED
    BY <2>1, <2>4, EmptySeq
<1>5. Places = {} /\ Len(ReadLedger) = 0 /\ ToSet(ReadLedger) = {}
  BY <1>4 DEF Places, ToSet
<1>6. /\ \A c \in Commands :
            /\ pc[c] = "idle" /\ rows[c] = <<>> /\ start[c] = 0 /\ synced[c] = 0
            /\ server[c] = 0 /\ answer[c] = "none" /\ Reached(c) = 0 /\ ~Pushing(c)
            /\ 1..Len(rows[c]) = {}
      /\ cursor = 0 /\ disturbed = {}
  BY DEF Init, Reached, Pushing
<1>7. Progress /\ Placed
  BY <1>5, <1>6 DEF Progress, ProgressOf, Placed, Recorded
<1>8. Counted /\ PushedInOrder /\ OkMeansPushed
  BY <1>5, <1>6 DEF Counted, CursorCounted, SnapshotCounted, PushedInOrder, OkMeansPushed, Places
<1>9. Alone /\ OnceUnlessDisturbed
  BY <1>5, <1>6, StoreAssumption
     DEF Alone, OnePushes, CursorAhead, CommandAhead, OnceUnlessDisturbed
<1> QED
  BY <1>2, <1>7, <1>8, <1>9 DEF IInv

-----------------------------------------------------------------------------
(* The theorems *)

LEMMA Invariant == Spec => []IInv
<1>1. IInv /\ [Next]_vars => IInv'
  BY TypeKept, ProgressKept, PlacedPreserved, CountedPreserved, OrderPreserved,
     OkPreserved, AlonePreserved, OncePreserved DEF IInv
<1> QED
  BY <1>1, InitIInv, PTL DEF Spec, vars

\* Whatever the commands, the crashes and the API's answers do, the files, the
\* server and the commands' own variables keep their types: a cursor is a
\* count of rows or a file that does not parse.
THEOREM TypeCorrect == Spec => []TypeOK
<1>1. IInv => TypeOK
  BY DEF IInv
<1> QED
  BY <1>1, Invariant, PTL

\* _syncstate.py's reading of the cursor: however many commands append, push
\* and crash, the rows before the cursor are on the server, as long as no row
\* lost its line.
THEOREM CursorCounts == Spec => []CursorCountsPushedRows
<1>1. IInv => CursorCountsPushedRows
  <2> SUFFICES ASSUME IInv, Stays, cursor # Unreadable,
                      NEW i \in 1..Smaller(cursor, Len(ReadLedger))
               PROVE  Pushed(ReadLedger[i])
    BY DEF CursorCountsPushedRows
  <2>1. cursor \in Nat /\ CursorCounted
    BY DEF IInv, Counted, TypeOK
  <2>2. i \in 1..cursor
    BY <2>1 DEF CursorCounted, Smaller
  <2> QED
    BY <2>1, <2>2 DEF CursorCounted
<1> QED
  BY <1>1, Invariant, PTL

\* push_pending's order: no row is on the server before the rows that stand
\* before it in the ledger, whichever commands pushed them, as long as no row
\* lost its line.
THEOREM OrderHolds == Spec => []PushedInOrder
<1>1. IInv => PushedInOrder
  BY DEF IInv
<1> QED
  BY <1>1, Invariant, PTL

\* push_pending's ok: a learner who is told ok has the row on the server if it
\* is in the ledger, even when other commands moved the cursor meanwhile.
THEOREM OkHolds == Spec => []OkMeansPushed
<1>1. IInv => OkMeansPushed
  BY DEF IInv
<1> QED
  BY <1>1, Invariant, PTL

\* The API inserts a row once, unless an answer was lost, a push raised, a
\* command died while it pushed or two commands pushed at once.
THEOREM OnceHolds == Spec => []OnceUnlessDisturbed
<1>1. IInv => OnceUnlessDisturbed
  BY DEF IInv
<1> QED
  BY <1>1, Invariant, PTL

=============================================================================
