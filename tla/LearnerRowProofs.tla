-------------------------- MODULE LearnerRowProofs --------------------------
(***************************************************************************)
(* LearnerRow for every number of requests, every cap, every clock bound:  *)
(* the typing of its state, the contract of the compare-and-swap, and the  *)
(* two promises that rest on it, the voice budget and the withdrawal of    *)
(* approval; when a mint is refused, and that every request's calls run    *)
(* out.                                                                    *)
(***************************************************************************)
EXTENDS LearnerRow, FiniteSetTheorems, TLAPS

LEMMA EmptyStateType == EmptyState \in State /\ NoRow \in Row
<1>1. 0 \in Months
  BY RowAssumption DEF Months
<1> QED
  BY <1>1 DEF EmptyState, NoRow, State, Row, Usage, VISIBILITY_VALUES

LEMMA IdleHandlerType == IdleHandler \in Handler
<1>1. 0 \in Months /\ 0 \in 0 .. MaxAttempts
  BY RowAssumption DEF Months
<1> QED
  BY <1>1, EmptyStateType DEF IdleHandler, Handler, Phases, Results

\* What the three ways of moving a handler on return.
LEMMA AnsweredType ==
    ASSUME TypeOK, NEW r \in Requests, NEW result \in Results
    PROVE  Answered(r, result) \in [Requests -> Handler]
<1>1. req[r].op \in AllOps \cup {"none"}
  BY DEF TypeOK, Handler
<1>2. [IdleHandler EXCEPT !.op = req[r].op, !.pc = "done", !.result = result] \in Handler
  BY <1>1, IdleHandlerType DEF Handler, Phases
<1> QED
  BY <1>2 DEF Answered, TypeOK

LEMMA FetchedType ==
    ASSUME TypeOK, NEW r \in Requests, NEW pc \in Phases
    PROVE  Fetched(r, pc) \in [Requests -> Handler]
<1>1. clock \in Nat /\ row \in Row /\ req[r] \in Handler
  BY RowAssumption DEF TypeOK
<1>2. [req[r] EXCEPT !.seen = row, !.pc = pc, !.since = clock] \in Handler
  BY <1>1 DEF Handler
<1>3. Fetched(r, pc) = [req EXCEPT ![r] = [req[r] EXCEPT !.seen = row, !.pc = pc, !.since = clock]]
  BY DEF Fetched, TypeOK
<1> QED
  BY <1>2, <1>3 DEF TypeOK

LEMMA StampsType ==
    ASSUME TypeOK, NEW r \in Requests, NEW now \in Stamps(r)
    PROVE  now \in Nat /\ (UniqueStamps => now \notin stamps)
<1>1. req[r].since \in Nat /\ clock \in Nat
  BY RowAssumption DEF TypeOK, Handler
<1> QED
  BY <1>1 DEF Stamps

-----------------------------------------------------------------------------
(* Type correctness *)

LEMMA InitType == Init => TypeOK
<1> SUFFICES ASSUME Init PROVE TypeOK
  OBVIOUS
<1>1. 0 \in Months /\ 0 \in 0 .. MaxClock
  BY RowAssumption DEF Months
<1>2. PICK exists, approved \in BOOLEAN :
        /\ row = [NoRow EXCEPT !.exists = exists, !.state.approved = approved]
        /\ withdrawn = ~approved
  BY DEF Init
<1>3. row \in Row /\ withdrawn \in BOOLEAN
  BY <1>1, <1>2 DEF NoRow, EmptyState, Row, State, Usage, VISIBILITY_VALUES
<1>4. req \in [Requests -> Handler]
  BY IdleHandlerType DEF Init
<1>5. granted \in [Months -> Nat] /\ stamps \subseteq Nat
  BY DEF Init
<1>6. clock \in 0 .. MaxClock /\ month \in Months
  BY <1>1 DEF Init
<1>7. clobbered \in BOOLEAN
  BY DEF Init
<1> QED
  BY <1>3, <1>4, <1>5, <1>6, <1>7 DEF TypeOK

LEMMA OverwriteType ==
    ASSUME TypeOK, NEW r \in Requests, NEW state \in State, OverwriteState(r, state)
    PROVE  /\ clock' \in 0 .. MaxClock /\ month' \in Months /\ row' \in Row
           /\ req' \in [Requests -> Handler] /\ granted' \in [Months -> Nat]
           /\ clobbered' \in BOOLEAN /\ stamps' \subseteq Nat
<1>1. req' \in [Requests -> Handler]
  BY AnsweredType DEF OverwriteState, Results
<1>2. clobbered' \in BOOLEAN
  BY DEF OverwriteState, TypeOK
<1>3. row' \in Row /\ stamps' \subseteq Nat
  <2>1. CASE row.exists
    <3>1. PICK now \in Stamps(r) :
            /\ row' = [row EXCEPT !.state = state, !.updated_at = now]
            /\ stamps' = stamps \cup {now}
      BY <2>1 DEF OverwriteState
    <3> QED
      BY <3>1, StampsType DEF TypeOK, Row
  <2>2. CASE ~row.exists
    BY <2>2 DEF OverwriteState, TypeOK
  <2> QED
    BY <2>1, <2>2
<1> QED
  BY <1>1, <1>2, <1>3 DEF OverwriteState, TypeOK

LEMMA StepType == TypeOK /\ [Next]_vars => TypeOK'
<1> SUFFICES ASSUME TypeOK, [Next]_vars PROVE TypeOK'
  OBVIOUS
<1>a. row \in Row /\ clock \in Nat
  BY RowAssumption DEF TypeOK
<1>1. CASE Tick
  BY <1>1, RowAssumption DEF Tick, TypeOK, Months
<1>2. ASSUME NEW r \in Requests, NEW op \in Ops, Start(r, op) PROVE TypeOK'
  <2>1. op \in AllOps
    BY RowAssumption
  <2>2. req' \in [Requests -> Handler]
    BY <1>2, <1>a, <2>1 DEF Start, TypeOK, Handler, Phases
  <2> QED
    BY <1>2, <2>2 DEF Start, TypeOK
<1>3. ASSUME NEW r \in Requests, UpsertLearner(r) PROVE TypeOK'
  <2>1. PICK now \in Stamps(r) :
          /\ row' = [row EXCEPT !.exists = TRUE, !.updated_at = now]
          /\ stamps' = stamps \cup {now}
    BY <1>3 DEF UpsertLearner
  <2>2. row' \in Row /\ stamps' \subseteq Nat
    BY <2>1, StampsType DEF TypeOK, Row
  <2> QED
    BY <1>3, <2>2, AnsweredType DEF UpsertLearner, TypeOK, Results
<1>4. ASSUME NEW r \in Requests, DeleteLearnerData(r) PROVE TypeOK'
  BY <1>4, AnsweredType, EmptyStateType
     DEF DeleteLearnerData, TypeOK, Results, ApproveRunning
<1>5. ASSUME NEW r \in Requests, RequireKnownLearner(r) PROVE TypeOK'
  BY <1>5, AnsweredType, FetchedType
     DEF RequireKnownLearner, TypeOK, Results, Phases
<1>6. ASSUME NEW r \in Requests, ReadForUpdate(r) PROVE TypeOK'
  BY <1>6, FetchedType DEF ReadForUpdate, TypeOK, Phases
<1>7. ASSUME NEW r \in Requests, SetLearnerVisibility(r) PROVE TypeOK'
  <2>1. PICK v \in VISIBILITY_VALUES :
          OverwriteState(r, [req[r].seen.state EXCEPT !.visibility = v])
    BY <1>7 DEF SetLearnerVisibility
  <2>2. [req[r].seen.state EXCEPT !.visibility = v] \in State
    BY DEF TypeOK, Handler, Row, State
  <2> QED
    BY <1>7, <2>1, <2>2, OverwriteType DEF SetLearnerVisibility, TypeOK
<1>8. ASSUME NEW r \in Requests, SetLearnerApproved(r) PROVE TypeOK'
  <2>1. /\ [req[r].seen.state EXCEPT !.approved = TRUE] \in State
        /\ [req[r].seen.state EXCEPT !.approved = FALSE] \in State
    BY DEF TypeOK, Handler, Row, State
  <2>2. withdrawn' \in BOOLEAN
    BY <1>8 DEF SetLearnerApproved, TypeOK, ApproveRunning
  <2> QED
    BY <1>8, <2>1, <2>2, OverwriteType DEF SetLearnerApproved, TypeOK
<1>9. ASSUME NEW r \in Requests, HandleTutor(r) PROVE TypeOK'
  BY <1>9, AnsweredType DEF HandleTutor, TypeOK, Results
<1>10. ASSUME NEW r \in Requests, HandleVoiceToken(r) PROVE TypeOK'
  <2>1. [Fetched(r, "write") EXCEPT ![r].month = month, ![r].attempt = 1]
          \in [Requests -> Handler]
    <3> DEFINE f == Fetched(r, "write")
    <3>1. f \in [Requests -> Handler] /\ month \in Months
      BY FetchedType DEF TypeOK, Phases
    <3> HIDE DEF f
    <3>a. f[r] \in Handler /\ 1 \in 0 .. MaxAttempts
      BY <3>1, RowAssumption
    <3>2. [f[r] EXCEPT !.month = month, !.attempt = 1] \in Handler
      BY <3>1, <3>a DEF Handler
    <3>3. [f EXCEPT ![r].month = month, ![r].attempt = 1]
            = [f EXCEPT ![r] = [f[r] EXCEPT !.month = month, !.attempt = 1]]
      BY <3>1
    <3>4. [f EXCEPT ![r].month = month, ![r].attempt = 1] \in [Requests -> Handler]
      BY <3>1, <3>2, <3>3
    <3> QED
      BY <3>4 DEF f
  <2> QED
    BY <1>10, <2>1, AnsweredType DEF HandleVoiceToken, TypeOK, Results
<1>11. ASSUME NEW r \in Requests, SetLearnerVoiceUsage(r) PROVE TypeOK'
  <2>1. CASE req' = Answered(r, "error") /\ UNCHANGED <<clock, month, row, granted, clobbered, withdrawn, stamps>>
    BY <2>1, AnsweredType DEF TypeOK, Results
  <2>2. CASE LoseBooking(r)
    <3>1. ASSUME req[r].attempt < MaxAttempts
          PROVE  [req EXCEPT ![r].pc = "reread", ![r].since = clock, ![r].attempt = @ + 1]
                   \in [Requests -> Handler]
      <4> DEFINE next == [req[r] EXCEPT !.pc = "reread", !.since = clock,
                                        !.attempt = req[r].attempt + 1]
      <4>0. /\ req[r] \in Handler /\ "reread" \in Phases
            /\ req[r].attempt + 1 \in 0 .. MaxAttempts
        BY <3>1, RowAssumption DEF TypeOK, Handler, Phases
      <4>1. next \in Handler
        BY <1>a, <4>0 DEF Handler
      <4>2. [req EXCEPT ![r].pc = "reread", ![r].since = clock, ![r].attempt = @ + 1]
              = [req EXCEPT ![r] = next]
        BY DEF TypeOK
      <4> HIDE DEF next
      <4> QED
        BY <4>1, <4>2 DEF TypeOK
    <3> QED
      BY <2>2, <3>1, AnsweredType DEF LoseBooking, TypeOK, Results
  <2>3. CASE WinBooking(r)
    <3> DEFINE used == VoiceSecondsUsed(req[r].seen, req[r].month) + MaxSession
               state == [req[r].seen.state EXCEPT
                           !.voice_usage = [month |-> req[r].month, seconds |-> used]]
    <3>1. used \in Nat
      BY RowAssumption
         DEF TypeOK, Handler, Row, State, Usage, VoiceSecondsUsed
    <3>2. state \in State
      BY <3>1 DEF TypeOK, Handler, Row, State, Usage
    <3>3. PICK now \in Stamps(r) :
            /\ row' = [row EXCEPT !.state = state, !.updated_at = now]
            /\ stamps' = stamps \cup {now}
      BY <2>3 DEF WinBooking
    <3> HIDE DEF state, used
    <3>4. row' \in Row /\ stamps' \subseteq Nat
      BY <3>2, <3>3, StampsType DEF TypeOK, Row
    <3>5. granted' \in [Months -> Nat]
      BY <2>3, RowAssumption DEF WinBooking, TypeOK, Handler
    <3>6. clobbered' \in BOOLEAN
      BY <2>3 DEF WinBooking, TypeOK
    <3> QED
      BY <2>3, <3>4, <3>5, <3>6, AnsweredType DEF WinBooking, TypeOK, Results
  <2> QED
    BY <1>11, <2>1, <2>2, <2>3 DEF SetLearnerVoiceUsage
<1>12. ASSUME NEW r \in Requests, BookAgain(r) PROVE TypeOK'
  BY <1>12, AnsweredType, FetchedType DEF BookAgain, TypeOK, Results, Phases
<1>13. CASE UNCHANGED vars
  BY <1>13 DEF vars, TypeOK
<1> QED
  BY <1>1, <1>2, <1>3, <1>4, <1>5, <1>6, <1>7, <1>8, <1>9, <1>10, <1>11,
     <1>12, <1>13 DEF Next, Handle

\* Every reachable state of the row, of the handlers and of the clock has its
\* type: no interleaving drives a handler outside its phases or a meter below
\* zero.
THEOREM TypeCorrect == Spec => []TypeOK
  BY InitType, StepType, PTL DEF Spec

-----------------------------------------------------------------------------
(***************************************************************************)
(* The contract of the compare-and-swap                                    *)
(*                                                                         *)
(* With distinct stamps a stamp names one version of the blob, so a        *)
(* snapshot whose stamp is the row's holds the row's blob.  That needs     *)
(* every stamp in play to be one already drawn: a write cannot then give   *)
(* the row the stamp of an older snapshot.                                 *)
(***************************************************************************)
StampInv ==
    /\ row.exists => row.updated_at \in stamps
    /\ \A r \in Requests : req[r].seen.exists => req[r].seen.updated_at \in stamps
    /\ UniqueStamps =>
         \A r \in Requests :
           /\ row.exists
           /\ req[r].seen.exists
           /\ req[r].seen.updated_at = row.updated_at
           => req[r].seen.state = row.state

\* What every handler's step does to its snapshot: it keeps it, drops it or
\* takes the row's.
SnapshotStep ==
    \A r \in Requests :
      \/ req'[r].seen = req[r].seen
      \/ req'[r].seen = NoRow
      \/ req'[r].seen = row

\* What every step does to the row and its stamps: nothing, erase the row,
\* restamp it, or write it anew under a stamp just drawn.
RowStep ==
    \/ UNCHANGED <<row, stamps>>
    \/ row' = NoRow /\ UNCHANGED stamps
    \/ /\ row'.exists
       /\ \A r \in Requests : req'[r].seen \in {req[r].seen, NoRow}
       /\ stamps' = stamps \cup {row'.updated_at}
       /\ UniqueStamps => row'.updated_at \notin stamps

LEMMA AnsweredSnapshots ==
    ASSUME TypeOK, NEW r \in Requests, NEW result, req' = Answered(r, result)
    PROVE  \A q \in Requests : req'[q].seen \in {req[q].seen, NoRow}
<1> SUFFICES ASSUME NEW q \in Requests
             PROVE  req'[q].seen \in {req[q].seen, NoRow}
  OBVIOUS
<1>1. CASE q = r
  BY <1>1 DEF Answered, TypeOK, IdleHandler
<1>2. CASE q # r
  BY <1>2 DEF Answered, TypeOK
<1> QED
  BY <1>1, <1>2

LEMMA FetchedSnapshots ==
    ASSUME TypeOK, NEW r \in Requests, NEW pc, req' = Fetched(r, pc)
    PROVE  SnapshotStep
<1>1. \A q \in Requests : req'[q].seen \in {req[q].seen, row}
  BY DEF Fetched, TypeOK, Handler
<1> QED
  BY <1>1 DEF SnapshotStep

LEMMA OverwriteSteps ==
    ASSUME TypeOK, NEW r \in Requests, NEW state, OverwriteState(r, state)
    PROVE  SnapshotStep /\ RowStep
<1>1. \A q \in Requests : req'[q].seen \in {req[q].seen, NoRow}
  BY AnsweredSnapshots DEF OverwriteState
<1>2. CASE row.exists
  <2>1. PICK now \in Stamps(r) :
          /\ row' = [row EXCEPT !.state = state, !.updated_at = now]
          /\ stamps' = stamps \cup {now}
    BY <1>2 DEF OverwriteState
  <2>2. row'.exists /\ row'.updated_at = now
    BY <1>2, <2>1 DEF TypeOK, Row
  <2> QED
    BY <1>1, <2>1, <2>2, StampsType DEF SnapshotStep, RowStep
<1>3. CASE ~row.exists
  BY <1>1, <1>3 DEF OverwriteState, SnapshotStep, RowStep
<1> QED
  BY <1>2, <1>3

LEMMA StepShape == TypeOK /\ [Next]_vars => SnapshotStep /\ RowStep
<1> SUFFICES ASSUME TypeOK, [Next]_vars PROVE SnapshotStep /\ RowStep
  OBVIOUS
<1>1. CASE Tick
  BY <1>1 DEF Tick, SnapshotStep, RowStep
<1>2. ASSUME NEW r \in Requests, NEW op \in Ops, Start(r, op)
      PROVE  SnapshotStep /\ RowStep
  <2>1. \A q \in Requests : req'[q].seen = req[q].seen
    BY <1>2 DEF Start, TypeOK, Handler
  <2> QED
    BY <1>2, <2>1 DEF Start, SnapshotStep, RowStep
<1>3. ASSUME NEW r \in Requests, UpsertLearner(r) PROVE SnapshotStep /\ RowStep
  <2>1. PICK now \in Stamps(r) :
          /\ row' = [row EXCEPT !.exists = TRUE, !.updated_at = now]
          /\ stamps' = stamps \cup {now}
    BY <1>3 DEF UpsertLearner
  <2>2. row'.exists /\ row'.updated_at = now
    BY <2>1 DEF TypeOK, Row
  <2>3. \A q \in Requests : req'[q].seen \in {req[q].seen, NoRow}
    BY <1>3, AnsweredSnapshots DEF UpsertLearner
  <2> QED
    BY <2>1, <2>2, <2>3, StampsType DEF SnapshotStep, RowStep
<1>4. ASSUME NEW r \in Requests, DeleteLearnerData(r) PROVE SnapshotStep /\ RowStep
  <2>1. \A q \in Requests : req'[q].seen \in {req[q].seen, NoRow}
    BY <1>4, AnsweredSnapshots DEF DeleteLearnerData
  <2> QED
    BY <1>4, <2>1 DEF DeleteLearnerData, SnapshotStep, RowStep
<1>5. ASSUME NEW r \in Requests,
             RequireKnownLearner(r) \/ ReadForUpdate(r) \/ HandleTutor(r) \/ BookAgain(r)
      PROVE  SnapshotStep /\ RowStep
  <2>1. UNCHANGED <<row, stamps>>
    BY <1>5 DEF RequireKnownLearner, ReadForUpdate, HandleTutor, BookAgain
  <2>2. \/ \E pc \in Phases : req' = Fetched(r, pc)
        \/ \E result \in Results : req' = Answered(r, result)
    BY <1>5 DEF RequireKnownLearner, ReadForUpdate, HandleTutor, BookAgain,
                Phases, Results
  <2>3. SnapshotStep
    BY <2>2, FetchedSnapshots, AnsweredSnapshots DEF SnapshotStep
  <2> QED
    BY <2>1, <2>3 DEF RowStep
<1>6. ASSUME NEW r \in Requests, SetLearnerVisibility(r) \/ SetLearnerApproved(r)
      PROVE  SnapshotStep /\ RowStep
  <2>1. \E state : OverwriteState(r, state)
    BY <1>6 DEF SetLearnerVisibility, SetLearnerApproved
  <2> QED
    BY <2>1, OverwriteSteps
<1>7. ASSUME NEW r \in Requests, HandleVoiceToken(r) PROVE SnapshotStep /\ RowStep
  <2>1. UNCHANGED <<row, stamps>>
    BY <1>7 DEF HandleVoiceToken
  <2>2. CASE req' = [Fetched(r, "write") EXCEPT ![r].month = month, ![r].attempt = 1]
    <3>1. \A q \in Requests : req'[q].seen \in {req[q].seen, row}
      BY <2>2 DEF Fetched, TypeOK, Handler
    <3> QED
      BY <2>1, <3>1 DEF SnapshotStep, RowStep
  <2>3. CASE \E result \in Results : req' = Answered(r, result)
    BY <2>1, <2>3, AnsweredSnapshots DEF SnapshotStep, RowStep
  <2> QED
    BY <1>7, <2>2, <2>3 DEF HandleVoiceToken, Results
<1>8. ASSUME NEW r \in Requests, SetLearnerVoiceUsage(r) PROVE SnapshotStep /\ RowStep
  <2>1. CASE WinBooking(r) /\ StampMatches(r)
    <3> DEFINE state == [req[r].seen.state EXCEPT !.voice_usage =
                           [month |-> req[r].month,
                            seconds |-> VoiceSecondsUsed(req[r].seen, req[r].month) + MaxSession]]
    <3>1. PICK now \in Stamps(r) :
            /\ row' = [row EXCEPT !.state = state, !.updated_at = now]
            /\ stamps' = stamps \cup {now}
      BY <2>1 DEF WinBooking
    <3> HIDE DEF state
    <3>2. row'.exists /\ row'.updated_at = now
      BY <2>1, <3>1 DEF TypeOK, Row, StampMatches
    <3>3. \A q \in Requests : req'[q].seen \in {req[q].seen, NoRow}
      BY <2>1, AnsweredSnapshots DEF WinBooking
    <3> QED
      BY <3>1, <3>2, <3>3, StampsType DEF SnapshotStep, RowStep
  <2>2. CASE LoseBooking(r)
    <3>1. UNCHANGED <<row, stamps>>
      BY <2>2 DEF LoseBooking
    <3>2. CASE req' = Answered(r, "exhausted")
      BY <3>1, <3>2, AnsweredSnapshots DEF SnapshotStep, RowStep
    <3>3. CASE req' = [req EXCEPT ![r].pc = "reread", ![r].since = clock,
                                  ![r].attempt = @ + 1]
      <4>1. \A q \in Requests : req'[q].seen = req[q].seen
        BY <3>3 DEF TypeOK, Handler
      <4> QED
        BY <3>1, <4>1 DEF SnapshotStep, RowStep
    <3> QED
      BY <2>2, <3>2, <3>3 DEF LoseBooking
  <2>3. CASE req' = Answered(r, "error") /\ UNCHANGED <<row, stamps>>
    BY <2>3, AnsweredSnapshots DEF SnapshotStep, RowStep
  <2> QED
    BY <1>8, <2>1, <2>2, <2>3 DEF SetLearnerVoiceUsage
<1>9. CASE UNCHANGED vars
  BY <1>9 DEF vars, SnapshotStep, RowStep
<1> QED
  BY <1>1, <1>2, <1>3, <1>4, <1>5, <1>6, <1>7, <1>8, <1>9 DEF Next, Handle

LEMMA StampsHold == Spec => []StampInv
<1>1. Init => StampInv
  <2> SUFFICES ASSUME Init PROVE StampInv
    OBVIOUS
  <2>1. PICK exists, approved \in BOOLEAN :
          row = [NoRow EXCEPT !.exists = exists, !.state.approved = approved]
    BY DEF Init
  <2>2. row.updated_at = 0 /\ 0 \in stamps
    BY <2>1 DEF Init, NoRow
  <2>3. \A r \in Requests : ~req[r].seen.exists
    BY DEF Init, IdleHandler, NoRow
  <2> QED
    BY <2>2, <2>3 DEF StampInv
<1>2. TypeOK /\ StampInv /\ [Next]_vars => StampInv'
  <2> SUFFICES ASSUME TypeOK, StampInv, [Next]_vars PROVE StampInv'
    OBVIOUS
  <2>0. ~NoRow.exists
    BY DEF NoRow
  <2>1. SnapshotStep /\ RowStep
    BY StepShape
  <2>2. CASE UNCHANGED <<row, stamps>>
    BY <2>0, <2>1, <2>2 DEF StampInv, SnapshotStep
  <2>3. CASE row' = NoRow /\ UNCHANGED stamps
    BY <2>0, <2>1, <2>3 DEF StampInv, SnapshotStep
  <2>4. CASE /\ row'.exists
             /\ \A r \in Requests : req'[r].seen \in {req[r].seen, NoRow}
             /\ stamps' = stamps \cup {row'.updated_at}
             /\ UniqueStamps => row'.updated_at \notin stamps
    BY <2>0, <2>4 DEF StampInv
  <2> QED
    BY <2>1, <2>2, <2>3, <2>4 DEF RowStep
<1> QED
  BY <1>1, <1>2, TypeCorrect, PTL DEF Spec

\* As long as no two writes draw the same millisecond, a booking is only ever
\* written over the blob it was computed from, whatever else runs.
THEOREM BookingContract == Spec => []BookingIsFresh
<1>1. StampInv => BookingIsFresh
  BY DEF StampInv, BookingIsFresh, StampMatches
<1> QED
  BY <1>1, StampsHold, PTL

-----------------------------------------------------------------------------
(***************************************************************************)
(* The voice budget                                                        *)
(*                                                                         *)
(* While no write has discarded state it had not read, the meter on the    *)
(* row is the account of what was granted: it is exact for its own month   *)
(* and no later month has been granted anything.  A handler about to book  *)
(* has checked the cap against its own snapshot, and the contract above    *)
(* makes that snapshot the row.                                            *)
(***************************************************************************)
Metered ==
    /\ BudgetWithinCap
    /\ granted[row.state.voice_usage.month] = row.state.voice_usage.seconds
    /\ \A m \in Months : m > row.state.voice_usage.month => granted[m] = 0

BudgetInv ==
    /\ ~row.exists => row.state = EmptyState
    /\ \A r \in Requests :
         At(r, "mint", "write") => HasRoom(req[r].seen, req[r].month)
    /\ UniqueStamps /\ ~clobbered => Metered

\* A handler's snapshot keeps its room for one more session.
LEMMA RoomKept ==
    ASSUME TypeOK, BudgetInv, NEW q \in Requests, req'[q] = req[q],
           At(q, "mint", "write")'
    PROVE  HasRoom(req[q].seen, req[q].month)'
<1>1. At(q, "mint", "write")
  BY DEF At
<1> QED
  BY <1>1 DEF BudgetInv, HasRoom, VoiceSecondsUsed

LEMMA AnsweredRoom ==
    ASSUME TypeOK, BudgetInv, NEW r \in Requests, NEW result,
           req' = Answered(r, result)
    PROVE  \A q \in Requests :
             At(q, "mint", "write")' => HasRoom(req[q].seen, req[q].month)'
<1> SUFFICES ASSUME NEW q \in Requests, At(q, "mint", "write")'
             PROVE  HasRoom(req[q].seen, req[q].month)'
  OBVIOUS
<1>1. q # r
  BY DEF At, Answered, IdleHandler, TypeOK
<1>2. req'[q] = req[q]
  BY <1>1 DEF Answered, TypeOK
<1> QED
  BY <1>2, RoomKept

LEMMA InitBudget == Init => BudgetInv
<1> SUFFICES ASSUME Init PROVE BudgetInv
  OBVIOUS
<1>1. PICK exists, approved \in BOOLEAN :
        /\ approved => exists
        /\ row = [NoRow EXCEPT !.exists = exists, !.state.approved = approved]
  BY DEF Init
<1>2. ~row.exists => row.state = EmptyState
  BY <1>1 DEF NoRow, EmptyState
<1>3. row.state.voice_usage = [month |-> 0, seconds |-> 0]
  BY <1>1 DEF NoRow, EmptyState
<1>4. \A r \in Requests : ~At(r, "mint", "write")
  BY DEF Init, IdleHandler, At
<1>5. \A m \in Months : granted[m] = 0
  BY DEF Init
<1>6. 0 \in Months
  BY RowAssumption DEF Months
<1>7. Metered
  BY <1>3, <1>5, <1>6, RowAssumption DEF Metered, BudgetWithinCap
<1> QED
  BY <1>2, <1>4, <1>7 DEF BudgetInv

\* A write that keeps the meter keeps the account.
LEMMA MeterKept ==
    ASSUME Metered, granted' = granted,
           row'.state.voice_usage = row.state.voice_usage
    PROVE  Metered'
  BY DEF Metered, BudgetWithinCap

LEMMA OverwriteBudget ==
    ASSUME TypeOK, BudgetInv, NEW r \in Requests, NEW state,
           OverwriteState(r, state),
           state.voice_usage = req[r].seen.state.voice_usage
    PROVE  BudgetInv'
<1>1. \A q \in Requests : At(q, "mint", "write")' => HasRoom(req[q].seen, req[q].month)'
  BY AnsweredRoom DEF OverwriteState
<1>2. CASE ~row.exists
  BY <1>1, <1>2 DEF OverwriteState, BudgetInv, Metered, BudgetWithinCap
<1>3. CASE row.exists
  <2>1. PICK now \in Stamps(r) : row' = [row EXCEPT !.state = state, !.updated_at = now]
    BY <1>3 DEF OverwriteState
  <2>2. row'.exists /\ row'.state = state
    BY <1>3, <2>1 DEF TypeOK, Row
  <2>3. ASSUME UniqueStamps, ~clobbered' PROVE Metered'
    <3>1. ~clobbered /\ row.state = req[r].seen.state
      BY <1>3, <2>3 DEF OverwriteState
    <3> QED
      BY <2>2, <2>3, <3>1, MeterKept DEF BudgetInv, OverwriteState
  <2> QED
    BY <1>1, <2>2, <2>3 DEF BudgetInv
<1> QED
  BY <1>2, <1>3

\* The booking itself: the meter of the row was read, had room, and either
\* belongs to the booking's month or to an earlier one.
LEMMA WinBudget ==
    ASSUME TypeOK, StampInv, BudgetInv, NEW r \in Requests,
           At(r, "mint", "write"), req[r].seen.exists, StampMatches(r),
           WinBooking(r)
    PROVE  BudgetInv'
<1> DEFINE m == req[r].month
           used == VoiceSecondsUsed(req[r].seen, m) + MaxSession
           state == [req[r].seen.state EXCEPT !.voice_usage =
                       [month |-> m, seconds |-> used]]
<1>1. PICK now \in Stamps(r) : row' = [row EXCEPT !.state = state, !.updated_at = now]
  BY DEF WinBooking
<1>2. row'.exists /\ row'.state.voice_usage = [month |-> m, seconds |-> used]
  BY <1>1 DEF StampMatches, TypeOK, Row, State, Handler
<1>3. m \in Months /\ used <= MonthlyCap
  BY DEF BudgetInv, HasRoom, TypeOK, Handler
<1>4. \A q \in Requests : At(q, "mint", "write")' => HasRoom(req[q].seen, req[q].month)'
  BY AnsweredRoom DEF WinBooking
<1>5. ASSUME UniqueStamps, ~clobbered' PROVE Metered'
  <2>1. ~clobbered /\ ~(row.state.voice_usage.month > m)
    BY <1>5 DEF WinBooking
  <2>2. Metered
    BY <1>5, <2>1 DEF BudgetInv
  <2>3. row.state = req[r].seen.state
    BY <1>5 DEF StampInv, StampMatches
  <2>4. row.state.voice_usage.month \in Nat /\ m \in Nat /\ granted \in [Months -> Nat]
    BY <1>3, RowAssumption DEF TypeOK, Row, State, Usage, Months
  <2>5. granted' = [granted EXCEPT ![m] = granted[m] + MaxSession]
    BY DEF WinBooking
  <2>6. granted[m] + MaxSession = used
    <3>1. CASE row.state.voice_usage.month = m
      BY <2>2, <2>3, <3>1 DEF Metered, VoiceSecondsUsed
    <3>2. CASE row.state.voice_usage.month # m
      <4>1. m > row.state.voice_usage.month
        BY <2>1, <2>4, <3>2
      <4>2. granted[m] = 0
        BY <1>3, <2>2, <4>1 DEF Metered
      <4>3. VoiceSecondsUsed(req[r].seen, m) = 0
        BY <2>3, <3>2 DEF VoiceSecondsUsed
      <4> QED
        BY <4>2, <4>3
    <3> QED
      BY <3>1, <3>2
  <2> HIDE DEF used, m, state
  <2>7. granted'[m] = used /\ \A k \in Months : k # m => granted'[k] = granted[k]
    BY <1>3, <2>4, <2>5, <2>6
  <2>8. BudgetWithinCap'
    BY <1>3, <2>2, <2>7 DEF Metered, BudgetWithinCap
  <2>9. \A k \in Months : k > m => granted'[k] = 0
    <3> SUFFICES ASSUME NEW k \in Months, k > m PROVE granted'[k] = 0
      OBVIOUS
    <3>1. k \in Nat
      BY RowAssumption DEF Months
    <3>2. k # m /\ k > row.state.voice_usage.month
      BY <2>1, <2>4, <3>1
    <3> QED
      BY <2>2, <2>7, <3>2 DEF Metered
  <2> QED
    BY <1>2, <2>7, <2>8, <2>9 DEF Metered
<1> HIDE DEF used, m, state
<1> QED
  BY <1>2, <1>4, <1>5 DEF BudgetInv

LEMMA StepBudget == TypeOK /\ StampInv /\ BudgetInv /\ [Next]_vars => BudgetInv'
<1> SUFFICES ASSUME TypeOK, StampInv, BudgetInv, [Next]_vars PROVE BudgetInv'
  OBVIOUS
<1> DEFINE Rooms == \A q \in Requests :
                      At(q, "mint", "write")' => HasRoom(req[q].seen, req[q].month)'
<1>a. ASSUME UNCHANGED <<row, granted, clobbered>>, Rooms PROVE BudgetInv'
  BY <1>a DEF BudgetInv, Metered, BudgetWithinCap
<1>1. CASE Tick
  <2>1. Rooms
    BY <1>1, RoomKept DEF Tick
  <2> QED
    BY <1>1, <1>a, <2>1 DEF Tick
<1>2. ASSUME NEW r \in Requests, NEW op \in Ops, Start(r, op) PROVE BudgetInv'
  <2>1. req'[r].pc # "write" \/ req'[r].op # "mint"
    BY <1>2 DEF Start, TypeOK, Handler
  <2>2. \A q \in Requests : q # r => req'[q] = req[q]
    BY <1>2 DEF Start, TypeOK
  <2>3. Rooms
    BY <2>1, <2>2, RoomKept DEF At
  <2> QED
    BY <1>2, <1>a, <2>3 DEF Start
<1>3. ASSUME NEW r \in Requests, UpsertLearner(r) PROVE BudgetInv'
  <2>1. Rooms
    BY <1>3, AnsweredRoom DEF UpsertLearner
  <2>2. row'.exists /\ row'.state = row.state
    BY <1>3 DEF UpsertLearner, TypeOK, Row
  <2>3. Metered => Metered'
    BY <1>3, <2>2, MeterKept DEF UpsertLearner
  <2>4. clobbered' = clobbered
    BY <1>3 DEF UpsertLearner
  <2> HIDE DEF Rooms
  <2>5. ~row'.exists => row'.state = EmptyState
    BY <2>2
  <2>6. UniqueStamps /\ ~clobbered' => Metered'
    BY <2>3, <2>4 DEF BudgetInv
  <2> QED
    BY <2>1, <2>5, <2>6 DEF BudgetInv, Rooms
<1>4. ASSUME NEW r \in Requests, DeleteLearnerData(r) PROVE BudgetInv'
  <2>1. Rooms
    BY <1>4, AnsweredRoom DEF DeleteLearnerData
  <2>2. row'.state = EmptyState /\ \A m \in Months : granted'[m] = 0
    BY <1>4 DEF DeleteLearnerData, NoRow
  <2>3. 0 \in Months
    BY RowAssumption DEF Months
  <2>4. Metered'
    BY <2>2, <2>3, RowAssumption DEF Metered, BudgetWithinCap, EmptyState
  <2>5. (~row.exists => row.state = EmptyState)'
    BY <2>2
  <2>6. (UniqueStamps /\ ~clobbered => Metered)'
    BY <2>4
  <2> QED
    BY <2>1, <2>5, <2>6 DEF BudgetInv
<1>5. ASSUME NEW r \in Requests,
             RequireKnownLearner(r) \/ ReadForUpdate(r) \/ HandleTutor(r)
      PROVE  BudgetInv'
  <2>0. req[r].op # "mint"
    BY <1>5 DEF RequireKnownLearner, ReadForUpdate, HandleTutor, At, VISIBILITY_VALUES
  <2>1. ~At(r, "mint", "write")'
    <3>1. \/ \E pc \in Phases : req' = Fetched(r, pc)
          \/ \E result \in Results : req' = Answered(r, result)
      BY <1>5 DEF RequireKnownLearner, ReadForUpdate, HandleTutor, Phases, Results
    <3>2. \A pc : req' = Fetched(r, pc) => req'[r].op = req[r].op
      BY DEF Fetched, TypeOK, Handler
    <3>3. \A result : req' = Answered(r, result) => req'[r].op = req[r].op
      BY DEF Answered, IdleHandler, TypeOK
    <3> QED
      BY <2>0, <3>1, <3>2, <3>3 DEF At
  <2>2. \A q \in Requests : q # r => req'[q] = req[q]
    BY <1>5 DEF RequireKnownLearner, ReadForUpdate, HandleTutor, Fetched,
                Answered, TypeOK
  <2>3. Rooms
    BY <2>1, <2>2, RoomKept
  <2> QED
    BY <1>5, <1>a, <2>3 DEF RequireKnownLearner, ReadForUpdate, HandleTutor
<1>6. ASSUME NEW r \in Requests, SetLearnerVisibility(r) PROVE BudgetInv'
  <2>1. PICK v \in VISIBILITY_VALUES :
          OverwriteState(r, [req[r].seen.state EXCEPT !.visibility = v])
    BY <1>6 DEF SetLearnerVisibility
  <2>2. [req[r].seen.state EXCEPT !.visibility = v].voice_usage
          = req[r].seen.state.voice_usage
    BY DEF TypeOK, Handler, Row, State
  <2> QED
    BY <2>1, <2>2, OverwriteBudget
<1>7. ASSUME NEW r \in Requests, SetLearnerApproved(r) PROVE BudgetInv'
  <2>1. PICK a \in BOOLEAN :
          OverwriteState(r, [req[r].seen.state EXCEPT !.approved = a])
    BY <1>7 DEF SetLearnerApproved
  <2>2. [req[r].seen.state EXCEPT !.approved = a].voice_usage
          = req[r].seen.state.voice_usage
    BY DEF TypeOK, Handler, Row, State
  <2> QED
    BY <2>1, <2>2, OverwriteBudget
<1>8. ASSUME NEW r \in Requests, HandleVoiceToken(r) PROVE BudgetInv'
  <2>1. CASE \E result : req' = Answered(r, result)
    BY <1>8, <1>a, <2>1, AnsweredRoom DEF HandleVoiceToken
  <2>2. CASE /\ HasRoom(row, month)
             /\ req' = [Fetched(r, "write") EXCEPT ![r].month = month, ![r].attempt = 1]
    <3>1. req'[r].seen = row /\ req'[r].month = month
      BY <2>2 DEF Fetched, TypeOK, Handler
    <3>2. HasRoom(req[r].seen, req[r].month)'
      BY <2>2, <3>1 DEF HasRoom, VoiceSecondsUsed
    <3>3. \A q \in Requests : q # r => req'[q] = req[q]
      BY <2>2 DEF Fetched, TypeOK
    <3>4. Rooms
      BY <3>2, <3>3, RoomKept
    <3> QED
      BY <1>8, <1>a, <3>4 DEF HandleVoiceToken
  <2> QED
    BY <1>8, <2>1, <2>2 DEF HandleVoiceToken
<1>9. ASSUME NEW r \in Requests, SetLearnerVoiceUsage(r) PROVE BudgetInv'
  <2>1. CASE WinBooking(r) /\ StampMatches(r) /\ req[r].seen.exists
    BY <1>9, <2>1, WinBudget DEF SetLearnerVoiceUsage
  <2>2. CASE LoseBooking(r)
    <3>1. CASE req' = Answered(r, "exhausted")
      BY <1>a, <2>2, <3>1, AnsweredRoom DEF LoseBooking
    <3>2. CASE req' = [req EXCEPT ![r].pc = "reread", ![r].since = clock,
                                  ![r].attempt = @ + 1]
      <4>1. ~At(r, "mint", "write")'
        BY <3>2 DEF At, TypeOK, Handler
      <4>2. \A q \in Requests : q # r => req'[q] = req[q]
        BY <3>2 DEF TypeOK
      <4>3. Rooms
        BY <4>1, <4>2, RoomKept
      <4> QED
        BY <1>a, <2>2, <4>3 DEF LoseBooking
    <3> QED
      BY <2>2, <3>1, <3>2 DEF LoseBooking
  <2>3. CASE req' = Answered(r, "error") /\ UNCHANGED <<row, granted, clobbered>>
    BY <1>a, <2>3, AnsweredRoom
  <2> QED
    BY <1>9, <2>1, <2>2, <2>3 DEF SetLearnerVoiceUsage
<1>10. ASSUME NEW r \in Requests, BookAgain(r) PROVE BudgetInv'
  <2>1. CASE req' = Answered(r, "exhausted")
    BY <1>10, <1>a, <2>1, AnsweredRoom DEF BookAgain
  <2>2. CASE HasRoom(row, req[r].month) /\ req' = Fetched(r, "write")
    <3>1. req'[r].seen = row /\ req'[r].month = req[r].month
      BY <2>2 DEF Fetched, TypeOK, Handler
    <3>2. HasRoom(req[r].seen, req[r].month)'
      BY <2>2, <3>1 DEF HasRoom, VoiceSecondsUsed
    <3>3. \A q \in Requests : q # r => req'[q] = req[q]
      BY <2>2 DEF Fetched, TypeOK
    <3>4. Rooms
      BY <3>2, <3>3, RoomKept
    <3> QED
      BY <1>10, <1>a, <3>4 DEF BookAgain
  <2> QED
    BY <1>10, <2>1, <2>2 DEF BookAgain
<1>11. CASE UNCHANGED vars
  <2>1. Rooms
    BY <1>11, RoomKept DEF vars
  <2> QED
    BY <1>11, <1>a, <2>1 DEF vars
<1> QED
  BY <1>1, <1>2, <1>3, <1>4, <1>5, <1>6, <1>7, <1>8, <1>9, <1>10, <1>11
     DEF Next, Handle

\* However many requests race, the voice seconds granted in a month stay
\* within the cap as long as no write discards a meter it had not read.
THEOREM BudgetHolds == Spec => []BudgetUnlessClobbered
<1>1. BudgetInv => BudgetUnlessClobbered
  BY DEF BudgetInv, Metered, BudgetUnlessClobbered
<1> QED
  BY <1>1, InitBudget, StepBudget, StampsHold, TypeCorrect, PTL DEF Spec

-----------------------------------------------------------------------------
(***************************************************************************)
(* The meter                                                               *)
(*                                                                         *)
(* Plain writes may lose a booking and tied stamps may let one land on a   *)
(* stale snapshot, but every meter ever written was read from the row or   *)
(* checked against the cap.                                                *)
(***************************************************************************)
Meter(learner) == learner.state.voice_usage.seconds

MeterInv ==
    /\ Meter(row) <= MonthlyCap
    /\ \A r \in Requests : Meter(req[r].seen) <= MonthlyCap

\* What every step does to the row's meter.
MeterStep ==
    \/ Meter(row') \in {Meter(row), 0}
    \/ \E r \in Requests : Meter(row') = Meter(req[r].seen)
    \/ Meter(row') <= MonthlyCap

LEMMA EmptyMeter == Meter(NoRow) = 0
  BY DEF Meter, NoRow, EmptyState

\* A plain write carries the meter its handler read.
LEMMA OverwriteMeter ==
    ASSUME TypeOK, NEW r \in Requests, NEW state, OverwriteState(r, state),
           state.voice_usage = req[r].seen.state.voice_usage
    PROVE  MeterStep
<1>1. CASE ~row.exists
  BY <1>1 DEF OverwriteState, MeterStep
<1>2. CASE row.exists
  <2>1. PICK now \in Stamps(r) : row' = [row EXCEPT !.state = state, !.updated_at = now]
    BY <1>2 DEF OverwriteState
  <2>2. row'.state = state
    BY <2>1 DEF TypeOK, Row
  <2> QED
    BY <2>2 DEF MeterStep, Meter
<1> QED
  BY <1>1, <1>2

LEMMA StepMeter == TypeOK /\ BudgetInv /\ [Next]_vars => MeterStep
<1> SUFFICES ASSUME TypeOK, BudgetInv, [Next]_vars PROVE MeterStep
  OBVIOUS
<1>0. ASSUME UNCHANGED row PROVE MeterStep
  BY <1>0 DEF MeterStep
<1>1. ASSUME NEW r \in Requests, UpsertLearner(r) PROVE MeterStep
  <2>1. row'.state = row.state
    BY <1>1 DEF UpsertLearner, TypeOK, Row
  <2> QED
    BY <2>1 DEF MeterStep, Meter
<1>2. ASSUME NEW r \in Requests, DeleteLearnerData(r) PROVE MeterStep
  BY <1>2, EmptyMeter DEF DeleteLearnerData, MeterStep
<1>3. ASSUME NEW r \in Requests, SetLearnerVisibility(r) PROVE MeterStep
  <2>1. PICK v \in VISIBILITY_VALUES :
          OverwriteState(r, [req[r].seen.state EXCEPT !.visibility = v])
    BY <1>3 DEF SetLearnerVisibility
  <2>2. [req[r].seen.state EXCEPT !.visibility = v].voice_usage
          = req[r].seen.state.voice_usage
    BY DEF TypeOK, Handler, Row, State
  <2> QED
    BY <2>1, <2>2, OverwriteMeter
<1>4. ASSUME NEW r \in Requests, SetLearnerApproved(r) PROVE MeterStep
  <2>1. PICK a \in BOOLEAN :
          OverwriteState(r, [req[r].seen.state EXCEPT !.approved = a])
    BY <1>4 DEF SetLearnerApproved
  <2>2. [req[r].seen.state EXCEPT !.approved = a].voice_usage
          = req[r].seen.state.voice_usage
    BY DEF TypeOK, Handler, Row, State
  <2> QED
    BY <2>1, <2>2, OverwriteMeter
<1>5. ASSUME NEW r \in Requests, SetLearnerVoiceUsage(r) PROVE MeterStep
  <2>1. CASE WinBooking(r)
    <3> DEFINE used == VoiceSecondsUsed(req[r].seen, req[r].month) + MaxSession
               state == [req[r].seen.state EXCEPT
                           !.voice_usage = [month |-> req[r].month, seconds |-> used]]
    <3>1. PICK now \in Stamps(r) : row' = [row EXCEPT !.state = state, !.updated_at = now]
      BY <2>1 DEF WinBooking
    <3>2. row'.state.voice_usage.seconds = used
      BY <3>1 DEF TypeOK, Row, State, Handler
    <3>3. used <= MonthlyCap
      BY <1>5 DEF BudgetInv, HasRoom, SetLearnerVoiceUsage
    <3> HIDE DEF used
    <3> QED
      BY <3>2, <3>3 DEF MeterStep, Meter
  <2> QED
    BY <1>0, <1>5, <2>1 DEF SetLearnerVoiceUsage, LoseBooking
<1> QED
  BY <1>0, <1>1, <1>2, <1>3, <1>4, <1>5
     DEF Next, Handle, Tick, Start, RequireKnownLearner, ReadForUpdate,
         HandleTutor, HandleVoiceToken, BookAgain, vars

\* Whatever races, even with writes that share a millisecond, a learner's meter
\* never shows more than the monthly cap, so a remainder is never negative.
THEOREM MeterHolds == Spec => []MeterWithinCap
<1>0. 0 <= MonthlyCap
  BY RowAssumption
<1>1. Init => MeterInv
  <2> SUFFICES ASSUME Init PROVE MeterInv
    OBVIOUS
  <2>1. PICK exists, approved \in BOOLEAN :
          row = [NoRow EXCEPT !.exists = exists, !.state.approved = approved]
    BY DEF Init
  <2>2. Meter(row) = 0
    BY <2>1 DEF Meter, NoRow, EmptyState
  <2>3. \A r \in Requests : req[r].seen = NoRow
    BY DEF Init, IdleHandler
  <2> QED
    BY <1>0, <2>2, <2>3, EmptyMeter DEF MeterInv
<1>2. TypeOK /\ BudgetInv /\ MeterInv /\ [Next]_vars => MeterInv'
  <2> SUFFICES ASSUME TypeOK, BudgetInv, MeterInv, [Next]_vars PROVE MeterInv'
    OBVIOUS
  <2>1. Meter(row') <= MonthlyCap
    BY <1>0, StepMeter DEF MeterStep, MeterInv
  <2>2. ASSUME NEW r \in Requests PROVE Meter(req'[r].seen) <= MonthlyCap
    <3>1. req'[r].seen \in {req[r].seen, NoRow, row}
      BY StepShape DEF SnapshotStep
    <3> QED
      BY <1>0, <3>1, EmptyMeter DEF MeterInv
  <2> QED
    BY <2>1, <2>2 DEF MeterInv, Meter
<1>3. MeterInv => MeterWithinCap
  BY DEF MeterInv, Meter, MeterWithinCap
<1> QED
  BY <1>1, <1>2, <1>3, InitBudget, StepBudget, StampsHold, TypeCorrect, PTL DEF Spec

-----------------------------------------------------------------------------
(***************************************************************************)
(* Withdrawal of approval                                                  *)
(*                                                                         *)
(* Only an approve request sets the flag on purpose, and while one runs    *)
(* withdrawn is FALSE.  Every other writer carries the flag it read.       *)
(***************************************************************************)
ApprovalInv ==
    /\ ~row.exists => row.state = EmptyState
    /\ \A r \in Requests : req[r].op = "approve" /\ InFlight(r) => ~withdrawn
    /\ WithdrawnUnlessClobbered

\* No step but Start sends a handler off, so an approve in flight after the
\* step was in flight before it.
LEMMA NoNewApprove ==
    ASSUME TypeOK, NEW r \in Requests, Handle(r), NEW q \in Requests,
           (req[q].op = "approve" /\ InFlight(q))'
    PROVE  req[q].op = "approve" /\ InFlight(q)
<1>1. CASE q # r
  <2>1. req'[q] = req[q]
    BY <1>1 DEF Handle, UpsertLearner, DeleteLearnerData, RequireKnownLearner,
       ReadForUpdate, SetLearnerVisibility, SetLearnerApproved, OverwriteState,
       HandleTutor, HandleVoiceToken, SetLearnerVoiceUsage, WinBooking,
       LoseBooking, BookAgain, Fetched, Answered, TypeOK
  <2> QED
    BY <2>1 DEF InFlight
<1>2. CASE q = r
  <2>1. InFlight(r)
    BY DEF Handle, UpsertLearner, DeleteLearnerData, RequireKnownLearner,
       ReadForUpdate, SetLearnerVisibility, SetLearnerApproved, HandleTutor,
       HandleVoiceToken, SetLearnerVoiceUsage, BookAgain, At, InFlight
  <2>2. \A result : req' = Answered(r, result) => ~InFlight(r)'
    BY DEF Answered, IdleHandler, TypeOK, InFlight
  <2>3. \A pc : req' = Fetched(r, pc) => req'[r].op = req[r].op
    BY DEF Fetched, TypeOK, Handler
  <2>4. CASE At(r, "mint", req[r].pc) /\ ~\E result \in Results : req' = Answered(r, result)
    <3>1. HandleVoiceToken(r) \/ SetLearnerVoiceUsage(r) \/ BookAgain(r)
      BY <2>4 DEF Handle, UpsertLearner, DeleteLearnerData, RequireKnownLearner,
         ReadForUpdate, SetLearnerVisibility, SetLearnerApproved, HandleTutor,
         At, VISIBILITY_VALUES
    <3>2. \/ req' = [Fetched(r, "write") EXCEPT ![r].month = month, ![r].attempt = 1]
          \/ req' = [req EXCEPT ![r].pc = "reread", ![r].since = clock,
                               ![r].attempt = @ + 1]
          \/ req' = Fetched(r, "write")
      BY <2>4, <3>1 DEF HandleVoiceToken, SetLearnerVoiceUsage, WinBooking,
         LoseBooking, BookAgain, Results
    <3>3. req'[r].op = req[r].op
      BY <3>2 DEF Fetched, TypeOK, Handler
    <3> QED
      BY <1>2, <2>1, <3>3
  <2>5. CASE ~At(r, "mint", req[r].pc)
    <3>1. (\E pc : req' = Fetched(r, pc)) \/ (\E result : req' = Answered(r, result))
      BY <2>5 DEF Handle, UpsertLearner, DeleteLearnerData, RequireKnownLearner,
         ReadForUpdate, SetLearnerVisibility, SetLearnerApproved, OverwriteState,
         HandleTutor, HandleVoiceToken, SetLearnerVoiceUsage, BookAgain, At
    <3> QED
      BY <1>2, <2>1, <2>2, <2>3, <3>1
  <2> QED
    BY <1>2, <2>2, <2>4, <2>5
<1> QED
  BY <1>1, <1>2

LEMMA InitApproval == Init => ApprovalInv
<1> SUFFICES ASSUME Init PROVE ApprovalInv
  OBVIOUS
<1>1. PICK exists, approved \in BOOLEAN :
        /\ approved => exists
        /\ row = [NoRow EXCEPT !.exists = exists, !.state.approved = approved]
        /\ withdrawn = ~approved
  BY DEF Init
<1>2. ~row.exists => row.state = EmptyState
  BY <1>1 DEF NoRow, EmptyState
<1>3. row.state.approved = approved
  BY <1>1 DEF NoRow, EmptyState
<1>4. \A r \in Requests : ~InFlight(r)
  BY DEF Init, IdleHandler, InFlight
<1> QED
  BY <1>1, <1>2, <1>3, <1>4 DEF ApprovalInv, WithdrawnUnlessClobbered, ApprovedOf

\* A write of the whole blob that carries the approval it read, or drops it,
\* keeps a withdrawn approval withdrawn.
LEMMA OverwriteApproval ==
    ASSUME TypeOK, ApprovalInv, NEW r \in Requests, NEW state,
           OverwriteState(r, state),
           \/ ~state.approved
           \/ state.approved = req[r].seen.state.approved /\ withdrawn' = withdrawn
    PROVE  /\ ~row'.exists => row'.state = EmptyState
           /\ WithdrawnUnlessClobbered'
<1>1. CASE ~row.exists
  BY <1>1 DEF OverwriteState, ApprovalInv, WithdrawnUnlessClobbered, ApprovedOf
<1>2. CASE row.exists
  <2>1. PICK now \in Stamps(r) : row' = [row EXCEPT !.state = state, !.updated_at = now]
    BY <1>2 DEF OverwriteState
  <2>2. row'.exists /\ row'.state = state
    BY <1>2, <2>1 DEF TypeOK, Row
  <2>3. ASSUME UniqueStamps, ~clobbered', withdrawn' PROVE ~state.approved
    <3>1. ~clobbered /\ row.state = req[r].seen.state
      BY <1>2, <2>3 DEF OverwriteState
    <3> QED
      BY <1>2, <2>3, <3>1 DEF ApprovalInv, WithdrawnUnlessClobbered, ApprovedOf
  <2> QED
    BY <2>2, <2>3 DEF WithdrawnUnlessClobbered, ApprovedOf
<1> QED
  BY <1>1, <1>2

LEMMA StepApproval == TypeOK /\ StampInv /\ ApprovalInv /\ [Next]_vars => ApprovalInv'
<1> SUFFICES ASSUME TypeOK, StampInv, ApprovalInv, [Next]_vars PROVE ApprovalInv'
  OBVIOUS
<1> DEFINE Approving(q) == req[q].op = "approve" /\ InFlight(q)
           Held == /\ ~row.exists => row.state = EmptyState
                   /\ WithdrawnUnlessClobbered
<1>a. ASSUME UNCHANGED <<row, clobbered, withdrawn>> PROVE Held'
  BY <1>a DEF ApprovalInv, WithdrawnUnlessClobbered, ApprovedOf
<1>b. ASSUME Held', \A q \in Requests : Approving(q)' => ~withdrawn' PROVE ApprovalInv'
  BY <1>b DEF ApprovalInv
<1>c. ASSUME NEW r \in Requests, Handle(r), Held', withdrawn' = withdrawn
      PROVE  ApprovalInv'
  BY <1>b, <1>c, NoNewApprove DEF ApprovalInv
<1>d. ASSUME NEW r \in Requests, Handle(r), Held', withdrawn' = ~ApproveRunning
      PROVE  ApprovalInv'
  BY <1>b, <1>d, NoNewApprove DEF ApproveRunning
<1>1. CASE Tick
  <2>1. \A q \in Requests : Approving(q)' => ~withdrawn'
    BY <1>1 DEF Tick, ApprovalInv, InFlight
  <2> QED
    BY <1>1, <1>a, <1>b, <2>1 DEF Tick
<1>2. ASSUME NEW r \in Requests, NEW op \in Ops, Start(r, op) PROVE ApprovalInv'
  <2>1. \A q \in Requests : q # r => req'[q] = req[q]
    BY <1>2 DEF Start, TypeOK
  <2>2. req'[r].op = op
    BY <1>2 DEF Start, TypeOK, Handler
  <2>3. withdrawn' = (withdrawn /\ op # "approve")
    BY <1>2 DEF Start
  <2>4. \A q \in Requests : Approving(q)' => ~withdrawn'
    BY <2>1, <2>2, <2>3 DEF ApprovalInv, InFlight
  <2>5. Held'
    BY <1>2, <2>3 DEF Start, ApprovalInv, WithdrawnUnlessClobbered, ApprovedOf, TypeOK
  <2> QED
    BY <1>b, <2>4, <2>5
<1>3. ASSUME NEW r \in Requests, UpsertLearner(r) PROVE ApprovalInv'
  <2>1. row'.exists /\ row'.state = row.state
    BY <1>3 DEF UpsertLearner, TypeOK, Row
  <2>2. ~row.state.approved \/ ApprovedOf(row)
    BY DEF ApprovalInv, EmptyState, ApprovedOf
  <2>3. clobbered' = clobbered /\ withdrawn' = withdrawn
    BY <1>3 DEF UpsertLearner
  <2>4. Held'
    BY <2>1, <2>2, <2>3 DEF ApprovalInv, WithdrawnUnlessClobbered, ApprovedOf
  <2> QED
    BY <1>3, <1>c, <2>3, <2>4 DEF Handle
<1>4. ASSUME NEW r \in Requests, DeleteLearnerData(r) PROVE ApprovalInv'
  <2>1. Held'
    BY <1>4 DEF DeleteLearnerData, NoRow, WithdrawnUnlessClobbered, ApprovedOf
  <2> QED
    BY <1>4, <1>d, <2>1 DEF Handle, DeleteLearnerData
<1>5. ASSUME NEW r \in Requests,
             \/ RequireKnownLearner(r) \/ ReadForUpdate(r) \/ HandleTutor(r)
             \/ HandleVoiceToken(r) \/ BookAgain(r)
      PROVE  ApprovalInv'
  <2>1. UNCHANGED <<row, clobbered, withdrawn>>
    BY <1>5 DEF RequireKnownLearner, ReadForUpdate, HandleTutor,
                HandleVoiceToken, BookAgain
  <2> QED
    BY <1>5, <1>a, <1>c, <2>1 DEF Handle
<1>6. ASSUME NEW r \in Requests, SetLearnerVisibility(r) PROVE ApprovalInv'
  <2>1. PICK v \in VISIBILITY_VALUES :
          OverwriteState(r, [req[r].seen.state EXCEPT !.visibility = v])
    BY <1>6 DEF SetLearnerVisibility
  <2>2. [req[r].seen.state EXCEPT !.visibility = v].approved
          = req[r].seen.state.approved
    BY DEF TypeOK, Handler, Row, State
  <2>3. withdrawn' = withdrawn
    BY <1>6 DEF SetLearnerVisibility
  <2>4. Held'
    BY <2>1, <2>2, <2>3, OverwriteApproval
  <2> QED
    BY <1>6, <1>c, <2>3, <2>4 DEF Handle
<1>7. ASSUME NEW r \in Requests, SetLearnerApproved(r) PROVE ApprovalInv'
  <2>1. CASE /\ At(r, "approve", "write")
             /\ OverwriteState(r, [req[r].seen.state EXCEPT !.approved = TRUE])
             /\ UNCHANGED withdrawn
    <3>1. ~withdrawn /\ ~withdrawn'
      BY <2>1 DEF ApprovalInv, At, InFlight
    <3>2. ~row'.exists => row'.state = EmptyState
      <4>1. CASE ~row.exists
        BY <2>1, <4>1 DEF OverwriteState, ApprovalInv
      <4>2. CASE row.exists
        BY <2>1, <4>2 DEF OverwriteState, TypeOK, Row
      <4> QED
        BY <4>1, <4>2
    <3>3. Held'
      BY <3>1, <3>2 DEF WithdrawnUnlessClobbered
    <3> QED
      BY <1>7, <1>c, <2>1, <3>3 DEF Handle
  <2>2. CASE /\ OverwriteState(r, [req[r].seen.state EXCEPT !.approved = FALSE])
             /\ withdrawn' = ~ApproveRunning
    <3>1. ~[req[r].seen.state EXCEPT !.approved = FALSE].approved
      BY DEF TypeOK, Handler, Row, State
    <3>2. Held'
      BY <2>2, <3>1, OverwriteApproval
    <3> QED
      BY <1>7, <1>d, <2>2, <3>2 DEF Handle
  <2> QED
    BY <1>7, <2>1, <2>2 DEF SetLearnerApproved
<1>8. ASSUME NEW r \in Requests, SetLearnerVoiceUsage(r) PROVE ApprovalInv'
  <2>1. CASE UNCHANGED <<row, clobbered, withdrawn>>
    BY <1>8, <1>a, <1>c, <2>1 DEF Handle
  <2>2. CASE req[r].seen.exists /\ StampMatches(r) /\ WinBooking(r)
    <3> DEFINE state == [req[r].seen.state EXCEPT !.voice_usage =
                           [month |-> req[r].month,
                            seconds |-> VoiceSecondsUsed(req[r].seen, req[r].month) + MaxSession]]
    <3>1. PICK now \in Stamps(r) : row' = [row EXCEPT !.state = state, !.updated_at = now]
      BY <2>2 DEF WinBooking
    <3>2. state.approved = req[r].seen.state.approved
      BY DEF TypeOK, Handler, Row, State
    <3> HIDE DEF state
    <3>3. row'.exists /\ row'.state = state /\ row.exists
      BY <2>2, <3>1 DEF TypeOK, Row, StampMatches
    <3>4. UniqueStamps => row.state = req[r].seen.state
      BY <2>2 DEF StampInv, StampMatches
    <3>5. withdrawn' = withdrawn /\ (~clobbered' => ~clobbered)
      BY <2>2 DEF WinBooking
    <3>6. Held'
      BY <3>2, <3>3, <3>4, <3>5 DEF ApprovalInv, WithdrawnUnlessClobbered, ApprovedOf
    <3> QED
      BY <1>8, <1>c, <3>5, <3>6 DEF Handle
  <2> QED
    BY <1>8, <2>1, <2>2 DEF SetLearnerVoiceUsage, LoseBooking
<1>9. CASE UNCHANGED vars
  <2>1. \A q \in Requests : Approving(q)' => ~withdrawn'
    BY <1>9 DEF vars, ApprovalInv, InFlight
  <2> QED
    BY <1>9, <1>a, <1>b, <2>1 DEF vars
<1> HIDE DEF Held, Approving
<1> QED
  BY <1>1, <1>2, <1>3, <1>4, <1>5, <1>6, <1>7, <1>8, <1>9 DEF Next, Handle

\* Once approval is revoked, or erased with the account, no interleaving of
\* requests brings it back while no write discards state it had not read.
THEOREM WithdrawalHolds == Spec => []WithdrawnUnlessClobbered
<1>1. ApprovalInv => WithdrawnUnlessClobbered
  BY DEF ApprovalInv
<1> QED
  BY <1>1, InitApproval, StepApproval, StampsHold, TypeCorrect, PTL DEF Spec

-----------------------------------------------------------------------------
(***************************************************************************)
(* The atomic budget                                                       *)
(*                                                                         *)
(* Mints, sign-ins and erasures alone, within one month, never discard     *)
(* state unread, so every step that grants seconds is one Book of the      *)
(* abstract budget.                                                        *)
(***************************************************************************)
MintsOnly ==
    /\ UniqueStamps
    /\ MaxMonth = 0
    /\ Ops \cap (VISIBILITY_VALUES \cup {"approve", "revoke"}) = {}

OpsInv == \A r \in Requests : req[r].op \in Ops \cup {"none"}

UnclobberedInv == ~clobbered /\ OpsInv

LEMMA StepOps ==
    ASSUME TypeOK, NEW r \in Requests, Handle(r)
    PROVE  \A q \in Requests : req'[q].op = req[q].op
<1>1. \A result : req' = Answered(r, result) => \A q \in Requests : req'[q].op = req[q].op
  BY DEF Answered, IdleHandler, TypeOK
<1>2. \A pc : req' = Fetched(r, pc) => \A q \in Requests : req'[q].op = req[q].op
  BY DEF Fetched, TypeOK, Handler
<1>3. CASE HandleVoiceToken(r)
  <2>1. CASE req' = [Fetched(r, "write") EXCEPT ![r].month = month, ![r].attempt = 1]
    BY <2>1 DEF Fetched, TypeOK, Handler
  <2> QED
    BY <1>1, <1>3, <2>1 DEF HandleVoiceToken
<1>4. CASE SetLearnerVoiceUsage(r)
  <2>1. CASE req' = [req EXCEPT ![r].pc = "reread", ![r].since = clock,
                                ![r].attempt = @ + 1]
    BY <2>1 DEF TypeOK, Handler
  <2> QED
    BY <1>1, <1>4, <2>1 DEF SetLearnerVoiceUsage, WinBooking, LoseBooking
<1>5. CASE BookAgain(r)
  BY <1>1, <1>2, <1>5 DEF BookAgain
<1>6. CASE \/ UpsertLearner(r) \/ DeleteLearnerData(r) \/ RequireKnownLearner(r)
           \/ ReadForUpdate(r) \/ SetLearnerVisibility(r) \/ SetLearnerApproved(r)
           \/ HandleTutor(r)
  BY <1>1, <1>2, <1>6 DEF UpsertLearner, DeleteLearnerData, RequireKnownLearner,
     ReadForUpdate, SetLearnerVisibility, SetLearnerApproved, OverwriteState,
     HandleTutor
<1> QED
  BY <1>3, <1>4, <1>5, <1>6 DEF Handle

LEMMA OpsKept ==
    ASSUME TypeOK, OpsInv, [Next]_vars
    PROVE  OpsInv'
<1>1. ASSUME NEW r \in Requests, Handle(r) PROVE OpsInv'
  BY <1>1, StepOps DEF OpsInv
<1>2. ASSUME NEW r \in Requests, NEW op \in Ops, Start(r, op) PROVE OpsInv'
  <2>1. \A q \in Requests : req'[q].op \in {op, req[q].op}
    BY <1>2 DEF Start, TypeOK, Handler
  <2> QED
    BY <1>2, <2>1 DEF OpsInv
<1>3. CASE Tick \/ UNCHANGED vars
  BY <1>3 DEF Tick, vars, OpsInv
<1> QED
  BY <1>1, <1>2, <1>3 DEF Next

LEMMA NothingClobbered ==
    ASSUME MintsOnly, TypeOK, UnclobberedInv, [Next]_vars
    PROVE  UnclobberedInv'
<1>1. ASSUME NEW r \in Requests, Handle(r) PROVE ~clobbered'
  <2>1. ~SetLearnerVisibility(r) /\ ~SetLearnerApproved(r)
    BY DEF UnclobberedInv, OpsInv, MintsOnly, SetLearnerVisibility, SetLearnerApproved,
           At, VISIBILITY_VALUES
  <2>2. ~(row.state.voice_usage.month > req[r].month)
    BY DEF TypeOK, Row, State, Usage, Handler, MintsOnly, Months
  <2> QED
    BY <1>1, <2>1, <2>2
       DEF UnclobberedInv, Handle, UpsertLearner, DeleteLearnerData,
           RequireKnownLearner, ReadForUpdate, HandleTutor, HandleVoiceToken,
           SetLearnerVoiceUsage, WinBooking, LoseBooking, BookAgain
<1>2. ~clobbered'
  BY <1>1 DEF Next, Start, Tick, vars, UnclobberedInv
<1> QED
  BY <1>2, OpsKept DEF UnclobberedInv

LEMMA GrantStep ==
    ASSUME UniqueStamps, ~clobbered', TypeOK, BudgetUnlessClobbered', [Next]_vars
    PROVE  [Budget!Next]_granted
<1>1. ASSUME NEW r \in Requests, WinBooking(r) PROVE [Budget!Next]_granted
  <2> DEFINE m == req[r].month
  <2>1. m \in Months /\ granted \in [Months -> Nat] /\ MaxSession \in Nat
    BY RowAssumption DEF TypeOK, Handler
  <2>2. granted' = [granted EXCEPT ![m] = granted[m] + MaxSession]
    BY <1>1 DEF WinBooking
  <2>3. granted'[m] <= MonthlyCap
    BY <2>1 DEF BudgetUnlessClobbered, BudgetWithinCap
  <2>4. granted[m] + MaxSession <= MonthlyCap
    BY <2>1, <2>2, <2>3
  <2>5. Budget!Book(m)
    BY <2>2, <2>4 DEF Budget!Book
  <2> QED
    BY <2>1, <2>5 DEF Budget!Next
<1>2. ASSUME NEW r \in Requests, DeleteLearnerData(r) PROVE [Budget!Next]_granted
  BY <1>2 DEF DeleteLearnerData, Budget!Next, Budget!Erase
<1>3. ASSUME NEW r \in Requests, Handle(r), ~WinBooking(r), ~DeleteLearnerData(r)
      PROVE  UNCHANGED granted
  BY <1>3 DEF Handle, UpsertLearner, RequireKnownLearner, ReadForUpdate,
     SetLearnerVisibility, SetLearnerApproved, OverwriteState, HandleTutor,
     HandleVoiceToken, SetLearnerVoiceUsage, LoseBooking, BookAgain
<1>4. CASE Tick \/ UNCHANGED vars
  BY <1>4 DEF Tick, vars
<1>5. ASSUME NEW r \in Requests, NEW op \in Ops, Start(r, op) PROVE UNCHANGED granted
  BY <1>5 DEF Start
<1> QED
  BY <1>1, <1>2, <1>3, <1>4, <1>5 DEF Next

\* Where nothing writes the blob plainly and no month ends, the row with its
\* compare-and-swap and its retries implements the atomic budget: every booking
\* that lands is one whole session within the cap.
THEOREM BookingImplementsBudget ==
    ASSUME MintsOnly
    PROVE  Spec => BookingIsAtomic
<1>1. Init => Budget!Init /\ UnclobberedInv
  BY DEF Init, Budget!Init, UnclobberedInv, OpsInv, IdleHandler
<1>2. TypeOK /\ UnclobberedInv /\ [Next]_vars => UnclobberedInv'
  BY NothingClobbered
<1>3. /\ TypeOK /\ UnclobberedInv' /\ BudgetUnlessClobbered' /\ [Next]_vars
      => [Budget!Next]_granted
  BY GrantStep DEF UnclobberedInv, MintsOnly
<1> QED
  BY <1>1, <1>2, <1>3, TypeCorrect, BudgetHolds, PTL
     DEF Spec, BookingIsAtomic, Budget!Spec

\* Granting is atomic while no write of unread state has been made: a landed
\* compare-and-swap is one whole session within the cap (bookVoiceUsage).
BooksUnlessClobbered ==
    [][UniqueStamps /\ ~clobbered' => [Budget!Next]_granted]_vars

\* For every mixture of requests and however many months end: with distinct
\* stamps, and until a write has discarded state it had not read, every step
\* of the row and its retries is one Book of the atomic budget, an erasure of
\* its meter, or no step of it at all.
THEOREM BooksUntilClobbered == Spec => BooksUnlessClobbered
<1>1. /\ TypeOK /\ BudgetUnlessClobbered' /\ [Next]_vars
      => (UniqueStamps /\ ~clobbered' => [Budget!Next]_granted)
  BY GrantStep
<1> QED
  BY <1>1, TypeCorrect, BudgetHolds, PTL DEF Spec, BooksUnlessClobbered
-----------------------------------------------------------------------------
(***************************************************************************)
(* Refusals                                                                *)
(*                                                                         *)
(* A handler that changes the row is done with that same step, so the      *)
(* requests that are done count the writes of the row, and a booking has   *)
(* lost no more attempts than there are such rivals.  A meter, in turn,    *)
(* shows no more than what was granted, unless a handler can write back a  *)
(* meter that an erasure has reset.                                        *)
(***************************************************************************)
MeterNeverRestored ==
    \/ "delete" \notin Ops
    \/ UniqueStamps /\ Ops \cap (VISIBILITY_VALUES \cup {"approve", "revoke"}) = {}

DoneRivals(r) == {q \in Requests \ {r} : req[q].pc = "done"}

Lost(r) == req[r].attempt - 1

RaceOf(r) ==
    /\ req[r].pc # "done" => req[r].result = "none"
    /\ At(r, "mint", "write") /\ req[r].seen.exists =>
         /\ Lost(r) <= Cardinality(DoneRivals(r))
         /\ ~StampMatches(r) => Lost(r) + 1 <= Cardinality(DoneRivals(r))
    /\ At(r, "mint", "reread") => Lost(r) <= Cardinality(DoneRivals(r))

RaceInv == \A r \in Requests : RaceOf(r)

Covered(learner) == Meter(learner) <= granted[learner.state.voice_usage.month]

CoverInv ==
    /\ Covered(row)
    /\ "delete" \notin Ops => \A r \in Requests : Covered(req[r].seen)

\* A handler leaves the others alone, and is done when it changes the row.
LEMMA HandleShape ==
    ASSUME TypeOK, NEW r \in Requests, Handle(r)
    PROVE  /\ \A q \in Requests \ {r} : req'[q] = req[q]
           /\ row' # row => req'[r].pc = "done"
           /\ req[r].pc \notin {"idle", "done"}
<1>1. \A result : req' = Answered(r, result) =>
         /\ \A q \in Requests \ {r} : req'[q] = req[q]
         /\ req'[r].pc = "done" /\ req'[r].result = result
  BY DEF Answered, IdleHandler, TypeOK
<1>2. \A pc : req' = Fetched(r, pc) => \A q \in Requests \ {r} : req'[q] = req[q]
  BY DEF Fetched, TypeOK, Handler
<1>3. CASE HandleVoiceToken(r)
  <2>1. CASE req' = [Fetched(r, "write") EXCEPT ![r].month = month, ![r].attempt = 1]
    BY <1>3, <2>1 DEF Fetched, TypeOK, Handler, HandleVoiceToken, At
  <2> QED
    BY <1>1, <1>3, <2>1 DEF HandleVoiceToken, At
<1>4. CASE SetLearnerVoiceUsage(r)
  <2>0. req[r].pc = "write"
    BY <1>4 DEF SetLearnerVoiceUsage, At
  <2>1. CASE /\ UNCHANGED row
             /\ req' = [req EXCEPT ![r].pc = "reread", ![r].since = clock,
                                   ![r].attempt = @ + 1]
    BY <2>0, <2>1 DEF TypeOK, Handler
  <2>2. CASE \E result : req' = Answered(r, result)
    BY <1>1, <2>0, <2>2
  <2> QED
    BY <1>4, <2>1, <2>2 DEF SetLearnerVoiceUsage, WinBooking, LoseBooking
<1>5. CASE BookAgain(r)
  BY <1>1, <1>2, <1>5 DEF BookAgain, At
<1>6. CASE \/ UpsertLearner(r) \/ DeleteLearnerData(r) \/ RequireKnownLearner(r)
           \/ ReadForUpdate(r) \/ SetLearnerVisibility(r) \/ SetLearnerApproved(r)
           \/ HandleTutor(r)
  BY <1>1, <1>2, <1>6 DEF UpsertLearner, DeleteLearnerData, RequireKnownLearner,
     ReadForUpdate, SetLearnerVisibility, SetLearnerApproved, OverwriteState,
     HandleTutor, At
<1> QED
  BY <1>3, <1>4, <1>5, <1>6 DEF Handle

\* Rivals that are done stay done, and one more is done when one finishes.
LEMMA RivalsGrow ==
    ASSUME IsFiniteSet(Requests), TypeOK, NEW r \in Requests, NEW q \in Requests, Handle(q)
    PROVE  /\ Cardinality(DoneRivals(r)) \in Nat
           /\ Cardinality(DoneRivals(r)') \in Nat
           /\ Cardinality(DoneRivals(r)) <= Cardinality(DoneRivals(r)')
           /\ q # r /\ row' # row =>
                Cardinality(DoneRivals(r)') = Cardinality(DoneRivals(r)) + 1
<1>1. /\ \A p \in Requests \ {q} : req'[p] = req[p]
      /\ row' # row => req'[q].pc = "done"
      /\ req[q].pc # "done"
  BY HandleShape
<1>2. IsFiniteSet(DoneRivals(r)) /\ IsFiniteSet(DoneRivals(r)')
  BY FS_Subset DEF DoneRivals
<1>3. DoneRivals(r) \subseteq DoneRivals(r)'
  BY <1>1 DEF DoneRivals
<1>4. ASSUME q # r, row' # row
      PROVE  Cardinality(DoneRivals(r)') = Cardinality(DoneRivals(r)) + 1
  <2>1. DoneRivals(r)' = DoneRivals(r) \cup {q} /\ q \notin DoneRivals(r)
    BY <1>1, <1>4 DEF DoneRivals
  <2> QED
    BY <1>2, <2>1, FS_AddElement
<1> QED
  BY <1>2, <1>3, <1>4, FS_Subset, FS_CardinalityType

LEMMA RaceKept ==
    ASSUME IsFiniteSet(Requests), TypeOK, RaceInv, [Next]_vars
    PROVE  RaceInv'
<1> SUFFICES ASSUME NEW r \in Requests PROVE RaceOf(r)'
  BY DEF RaceInv
<1> DEFINE rivals == Cardinality(DoneRivals(r))
<1>0. RaceOf(r) /\ req[r] \in Handler /\ req[r].attempt \in Nat
  BY RowAssumption DEF RaceInv, TypeOK, Handler
\* Steps that change neither the request nor its rivals.
<1>1. ASSUME req'[r] = req[r], DoneRivals(r)' = DoneRivals(r), UNCHANGED row
      PROVE  RaceOf(r)'
  BY <1>0, <1>1 DEF RaceOf, At, Lost, StampMatches
<1>2. CASE Tick \/ UNCHANGED vars
  BY <1>1, <1>2 DEF Tick, vars, DoneRivals
<1>3. ASSUME NEW q \in Requests, NEW op \in Ops, Start(q, op) PROVE RaceOf(r)'
  <2>1. UNCHANGED row /\ \A p \in Requests \ {q} : req'[p] = req[p]
    BY <1>3 DEF Start, TypeOK
  <2>2. req[q].pc = "idle" /\ req'[q].pc \in {"known", "write", "read"}
        /\ req'[q].op = op /\ (op = "mint" => req'[q].pc = "read")
        /\ req'[q].result = req[q].result
    BY <1>3 DEF Start, TypeOK, Handler
  <2>3. CASE q = r
    BY <1>0, <2>2, <2>3 DEF RaceOf, At
  <2>4. CASE q # r
    <3>1. DoneRivals(r)' = DoneRivals(r)
      BY <2>1, <2>2 DEF DoneRivals
    <3> QED
      BY <1>1, <2>1, <2>4, <3>1
  <2> QED
    BY <2>3, <2>4
\* A rival's step.
<1>4. ASSUME NEW q \in Requests \ {r}, Handle(q) PROVE RaceOf(r)'
  <2>1. req'[r] = req[r]
    BY <1>4, HandleShape
  <2>2. /\ rivals \in Nat /\ rivals' \in Nat /\ rivals <= rivals'
        /\ row' # row => rivals' = rivals + 1
    BY <1>4, RivalsGrow
  <2> HIDE DEF rivals
  <2>3. Lost(r)' = Lost(r) /\ Lost(r) \in Int
        /\ (row' = row => StampMatches(r)' = StampMatches(r))
    BY <1>0, <2>1 DEF Lost, StampMatches
  <2>4. At(r, "mint", "write") /\ req[r].seen.exists =>
           /\ Lost(r) <= rivals
           /\ ~StampMatches(r) => Lost(r) + 1 <= rivals
    BY <1>0 DEF RaceOf, rivals
  <2>5. At(r, "mint", "write")' /\ req'[r].seen.exists =>
           /\ Lost(r)' <= rivals'
           /\ ~StampMatches(r)' => Lost(r)' + 1 <= rivals'
    BY <2>1, <2>2, <2>3, <2>4 DEF At
  <2>6. At(r, "mint", "reread")' => Lost(r)' <= rivals'
    <3>1. At(r, "mint", "reread") => Lost(r) <= rivals
      BY <1>0 DEF RaceOf, rivals
    <3> QED
      BY <2>1, <2>2, <2>3, <3>1 DEF At
  <2> QED
    BY <1>0, <2>1, <2>5, <2>6 DEF RaceOf, rivals
\* The request's own step.
<1>5. ASSUME Handle(r) PROVE RaceOf(r)'
  <2>1. DoneRivals(r)' = DoneRivals(r)
    BY <1>5, HandleShape DEF DoneRivals
  <2>2. rivals \in Nat
    BY <1>5, RivalsGrow
  <2>3. req[r].pc \notin {"idle", "done"} /\ req[r].result = "none"
    BY <1>0, <1>5, HandleShape DEF RaceOf
  <2>4. ASSUME NEW result, req' = Answered(r, result) PROVE RaceOf(r)'
    <3>1. req'[r].pc = "done"
      BY <2>4 DEF Answered, IdleHandler, TypeOK
    <3> QED
      BY <3>1 DEF RaceOf, At
  <2>5. ASSUME req[r].op # "mint", NEW pc, req' = Fetched(r, pc) PROVE RaceOf(r)'
    <3>1. req'[r].op = req[r].op /\ req'[r].result = req[r].result
      BY <2>5 DEF Fetched, TypeOK, Handler
    <3> QED
      BY <2>3, <2>5, <3>1 DEF RaceOf, At
  <2>6. CASE HandleVoiceToken(r)
    <3>1. CASE /\ ApprovedOf(row)
               /\ req' = [Fetched(r, "write") EXCEPT ![r].month = month, ![r].attempt = 1]
      <4>1. /\ req'[r].pc = "write" /\ req'[r].seen = row /\ req'[r].attempt = 1
            /\ req'[r].result = req[r].result
        BY <3>1 DEF Fetched, TypeOK, Handler
      <4>2. Lost(r)' = 0 /\ StampMatches(r)'
        BY <2>6, <3>1, <4>1 DEF Lost, StampMatches, ApprovedOf, HandleVoiceToken
      <4> QED
        BY <2>1, <2>2, <2>3, <4>1, <4>2 DEF RaceOf, At
    <3> QED
      BY <2>4, <2>6, <3>1 DEF HandleVoiceToken
  <2>7. CASE SetLearnerVoiceUsage(r)
    <3>1. CASE req[r].seen.exists /\ ~StampMatches(r) /\ LoseBooking(r)
      <4>1. Lost(r) + 1 <= rivals
        BY <1>0, <2>7, <3>1 DEF RaceOf, SetLearnerVoiceUsage
      <4>2. CASE req' = [req EXCEPT ![r].pc = "reread", ![r].since = clock,
                                    ![r].attempt = @ + 1]
        <5>1. /\ req'[r].pc = "reread" /\ req'[r].attempt = req[r].attempt + 1
              /\ req'[r].result = req[r].result
          BY <4>2 DEF TypeOK, Handler
        <5>2. Lost(r)' = Lost(r) + 1
          BY <1>0, <5>1 DEF Lost
        <5> QED
          BY <2>1, <2>3, <4>1, <5>1, <5>2 DEF RaceOf, At
      <4> QED
        BY <2>4, <3>1, <4>2 DEF LoseBooking
    <3> QED
      BY <2>4, <2>7, <3>1 DEF SetLearnerVoiceUsage, WinBooking
  <2>8. CASE BookAgain(r)
    <3>1. CASE req' = Fetched(r, "write")
      <4>1. /\ req'[r].pc = "write" /\ req'[r].seen = row
            /\ req'[r].attempt = req[r].attempt /\ req'[r].result = req[r].result
        BY <3>1 DEF Fetched, TypeOK, Handler
      <4>2. Lost(r)' = Lost(r) /\ (req'[r].seen.exists => StampMatches(r)')
        BY <2>8, <4>1 DEF Lost, StampMatches, BookAgain
      <4>3. Lost(r) <= rivals
        BY <1>0, <2>8 DEF RaceOf, BookAgain
      <4> QED
        BY <2>1, <2>3, <4>1, <4>2, <4>3 DEF RaceOf, At
    <3> QED
      BY <2>4, <2>8, <3>1 DEF BookAgain
  <2>9. CASE \/ UpsertLearner(r) \/ DeleteLearnerData(r) \/ RequireKnownLearner(r)
             \/ ReadForUpdate(r) \/ SetLearnerVisibility(r) \/ SetLearnerApproved(r)
             \/ HandleTutor(r)
    BY <2>4, <2>5, <2>9 DEF UpsertLearner, DeleteLearnerData, RequireKnownLearner,
       ReadForUpdate, SetLearnerVisibility, SetLearnerApproved, OverwriteState,
       HandleTutor, At, VISIBILITY_VALUES
  <2> QED
    BY <1>5, <2>6, <2>7, <2>8, <2>9 DEF Handle
<1> QED
  BY <1>2, <1>3, <1>4, <1>5 DEF Next

LEMMA CoverKept ==
    ASSUME MeterNeverRestored, TypeOK, StampInv, OpsInv, CoverInv, [Next]_vars
    PROVE  CoverInv'
<1>0. /\ row \in Row /\ \A r \in Requests : req[r].seen \in Row
      /\ granted \in [Months -> Nat] /\ NoRow \in Row
      /\ \A learner \in Row : /\ Meter(learner) \in Nat
                              /\ learner.state.voice_usage.month \in Months
  BY EmptyStateType DEF TypeOK, Handler, Meter, Row, State, Usage
<1>1. Covered(NoRow)
  BY <1>0, EmptyMeter DEF Covered
<1>2. SnapshotStep
  BY StepShape
\* What is granted only grows as long as nothing is erased.
<1>3. ASSUME \A m \in Months : granted'[m] >= granted[m],
             granted' \in [Months -> Nat], Covered(row)'
      PROVE  CoverInv'
  <2>1. ASSUME NEW learner \in Row, Covered(learner)
        PROVE  Meter(learner) <= granted'[learner.state.voice_usage.month]
    BY <1>0, <1>3, <2>1 DEF Covered
  <2>2. ASSUME "delete" \notin Ops, NEW r \in Requests PROVE Covered(req[r].seen)'
    <3>1. req'[r].seen \in {req[r].seen, NoRow, row}
      BY <1>2 DEF SnapshotStep
    <3>2. Covered(req[r].seen) /\ Covered(row)
      BY <2>2 DEF CoverInv
    <3> QED
      BY <1>0, <1>1, <2>1, <3>1, <3>2 DEF Covered, Meter
  <2> QED
    BY <1>3, <2>2 DEF CoverInv
<1>4. ASSUME UNCHANGED granted, row'.state.voice_usage = row.state.voice_usage
      PROVE  CoverInv'
  <2>1. Covered(row)'
    BY <1>4 DEF CoverInv, Covered, Meter
  <2> QED
    BY <1>0, <1>3, <1>4, <2>1
<1>5. ASSUME NEW r \in Requests, DeleteLearnerData(r) PROVE CoverInv'
  <2>1. "delete" \in Ops
    BY <1>5 DEF DeleteLearnerData, At, OpsInv
  <2>2. row' = NoRow /\ granted' = [m \in Months |-> 0]
    BY <1>5 DEF DeleteLearnerData
  <2>3. NoRow.state.voice_usage.month \in Months /\ Meter(NoRow) = 0
    BY <1>0, EmptyMeter
  <2>4. granted'[NoRow.state.voice_usage.month] = 0
    BY <2>2, <2>3
  <2>5. Covered(row)'
    BY <2>2, <2>3, <2>4 DEF Covered, Meter
  <2> QED
    BY <2>1, <2>5 DEF CoverInv
<1>6. ASSUME NEW r \in Requests, NEW state, OverwriteState(r, state),
             state.voice_usage = req[r].seen.state.voice_usage,
             \E op \in VISIBILITY_VALUES \cup {"approve", "revoke"} : At(r, op, "write")
      PROVE  CoverInv'
  <2>1. "delete" \notin Ops
    BY <1>6 DEF MeterNeverRestored, OpsInv, At, VISIBILITY_VALUES
  <2>2. Covered(req[r].seen)
    BY <2>1 DEF CoverInv
  <2>3. UNCHANGED granted
    BY <1>6 DEF OverwriteState
  <2>4. CASE UNCHANGED row
    BY <1>4, <2>3, <2>4
  <2>5. CASE \E now \in Stamps(r) : row' = [row EXCEPT !.state = state, !.updated_at = now]
    <3>1. row'.state = state
      BY <1>0, <2>5 DEF Row
    <3>2. Covered(row)'
      BY <1>6, <2>2, <2>3, <3>1 DEF Covered, Meter
    <3> QED
      BY <1>0, <1>3, <2>3, <3>2
  <2> QED
    BY <1>6, <2>4, <2>5 DEF OverwriteState
<1>7. ASSUME NEW r \in Requests, SetLearnerVisibility(r) PROVE CoverInv'
  <2>1. PICK v \in VISIBILITY_VALUES :
          /\ At(r, v, "write")
          /\ OverwriteState(r, [req[r].seen.state EXCEPT !.visibility = v])
    BY <1>7 DEF SetLearnerVisibility
  <2>2. [req[r].seen.state EXCEPT !.visibility = v].voice_usage
          = req[r].seen.state.voice_usage
    BY DEF TypeOK, Handler, Row, State
  <2> QED
    BY <1>6, <2>1, <2>2
<1>8. ASSUME NEW r \in Requests, SetLearnerApproved(r) PROVE CoverInv'
  <2>1. PICK a \in BOOLEAN :
          /\ \E op \in {"approve", "revoke"} : At(r, op, "write")
          /\ OverwriteState(r, [req[r].seen.state EXCEPT !.approved = a])
    BY <1>8 DEF SetLearnerApproved
  <2>2. [req[r].seen.state EXCEPT !.approved = a].voice_usage
          = req[r].seen.state.voice_usage
    BY DEF TypeOK, Handler, Row, State
  <2> QED
    BY <1>6, <2>1, <2>2
<1>9. ASSUME NEW r \in Requests, req[r].seen.exists, StampMatches(r), WinBooking(r)
      PROVE  CoverInv'
  <2> DEFINE m == req[r].month
             used == VoiceSecondsUsed(req[r].seen, m)
  <2>1. Covered(req[r].seen)
    <3>1. CASE "delete" \notin Ops
      BY <3>1 DEF CoverInv
    <3>2. CASE UniqueStamps
      <4>1. req[r].seen.state = row.state
        BY <1>9, <3>2 DEF StampInv, StampMatches
      <4> QED
        BY <4>1 DEF CoverInv, Covered, Meter
    <3> QED
      BY <3>1, <3>2 DEF MeterNeverRestored
  <2>2. m \in Months /\ granted[m] \in Nat /\ MaxSession \in Nat
    BY <1>0, RowAssumption DEF TypeOK, Handler
  <2>3. used \in Nat /\ used <= granted[m]
    BY <1>0, <2>1, <2>2 DEF VoiceSecondsUsed, Covered, Meter
  <2>4. /\ granted' = [granted EXCEPT ![m] = granted[m] + MaxSession]
        /\ \E now \in Stamps(r) :
              row' = [row EXCEPT
                        !.state = [req[r].seen.state EXCEPT
                           !.voice_usage = [month |-> m, seconds |-> used + MaxSession]],
                        !.updated_at = now]
    BY <1>9 DEF WinBooking
  <2> HIDE DEF used
  <2>5. row'.state.voice_usage = [month |-> m, seconds |-> used + MaxSession]
    BY <1>0, <2>4 DEF Row, State
  <2>6. granted' \in [Months -> Nat] /\ granted'[m] = granted[m] + MaxSession
        /\ \A n \in Months : granted'[n] >= granted[n]
    BY <1>0, <2>2, <2>4
  <2>7. Covered(row)'
    BY <2>2, <2>3, <2>5, <2>6 DEF Covered, Meter
  <2> QED
    BY <1>3, <2>6, <2>7
<1>10. ASSUME NEW r \in Requests, UpsertLearner(r) PROVE CoverInv'
  <2>1. row'.state = row.state /\ UNCHANGED granted
    BY <1>0, <1>10 DEF UpsertLearner, Row
  <2> QED
    BY <1>4, <2>1
<1>11. ASSUME UNCHANGED <<row, granted>> PROVE CoverInv'
  BY <1>4, <1>11
<1>12. ASSUME NEW r \in Requests, SetLearnerVoiceUsage(r) PROVE CoverInv'
  BY <1>9, <1>11, <1>12 DEF SetLearnerVoiceUsage, LoseBooking
<1>13. ASSUME NEW r \in Requests,
              \/ RequireKnownLearner(r) \/ ReadForUpdate(r) \/ HandleTutor(r)
              \/ HandleVoiceToken(r) \/ BookAgain(r) \/ \E op \in Ops : Start(r, op)
       PROVE  CoverInv'
  BY <1>11, <1>13 DEF RequireKnownLearner, ReadForUpdate, HandleTutor, HandleVoiceToken,
                      BookAgain, Start
<1>14. CASE Tick \/ UNCHANGED vars
  BY <1>11, <1>14 DEF Tick, vars
<1> QED
  BY <1>5, <1>7, <1>8, <1>10, <1>12, <1>13, <1>14 DEF Next, Handle

\* Where a request is answered exhausted, no room was left: the last attempt
\* is never lost to fewer rivals than there are attempts.
LEMMA RefusalStep ==
    ASSUME IsFiniteSet(Requests), TypeOK, RaceInv, CoverInv, [Next]_vars,
           NEW r \in Requests, Cardinality(Requests \ {r}) < MaxAttempts,
           req[r].pc # "done", req'[r].result = "exhausted"
    PROVE  \E m \in Months : granted[m] + MaxSession > MonthlyCap
<1>0. /\ RaceOf(r) /\ req[r].result = "none" /\ req[r].month \in Months /\ month \in Months
      /\ MaxSession \in Nat /\ MonthlyCap \in Nat /\ granted \in [Months -> Nat]
      /\ row \in Row /\ Covered(row) /\ MaxAttempts \in Nat
  BY RowAssumption DEF RaceInv, RaceOf, TypeOK, Handler, CoverInv
<1>1. ASSUME NEW m \in Months, ~HasRoom(row, m)
      PROVE  \E n \in Months : granted[n] + MaxSession > MonthlyCap
  <2>1. VoiceSecondsUsed(row, m) \in Nat /\ VoiceSecondsUsed(row, m) <= granted[m]
    BY <1>0 DEF VoiceSecondsUsed, Covered, Meter, Row, State, Usage
  <2>2. granted[m] + MaxSession > MonthlyCap
    BY <1>0, <1>1, <2>1 DEF HasRoom
  <2> QED
    BY <2>2
<1>2. req'[r] # req[r]
  BY <1>0
<1>3. CASE HandleVoiceToken(r)
  <2>1. CASE req' = [Fetched(r, "write") EXCEPT ![r].month = month, ![r].attempt = 1]
    BY <1>0, <2>1 DEF Fetched, TypeOK, Handler
  <2>2. CASE req' = Answered(r, "forbidden")
    BY <2>2 DEF Answered, IdleHandler, TypeOK
  <2> QED
    BY <1>0, <1>1, <1>3, <2>1, <2>2 DEF HandleVoiceToken
<1>4. CASE SetLearnerVoiceUsage(r)
  <2>1. req' # Answered(r, "error") /\ req' # Answered(r, "ok")
    BY DEF Answered, IdleHandler, TypeOK
  <2>2. req[r].seen.exists /\ ~StampMatches(r) /\ LoseBooking(r) /\ At(r, "mint", "write")
    BY <1>4, <2>1 DEF SetLearnerVoiceUsage, WinBooking
  <2>3. req[r].attempt \in Nat /\ req[r].attempt <= MaxAttempts
        /\ Lost(r) + 1 <= Cardinality(DoneRivals(r))
    BY <1>0, <2>2, RowAssumption DEF RaceOf, TypeOK, Handler
  <2>4. Cardinality(DoneRivals(r)) <= Cardinality(Requests \ {r})
        /\ Cardinality(DoneRivals(r)) \in Nat /\ Cardinality(Requests \ {r}) \in Nat
    <3>1. IsFiniteSet(Requests \ {r}) /\ DoneRivals(r) \subseteq Requests \ {r}
      BY FS_Subset DEF DoneRivals
    <3> QED
      BY <3>1, FS_Subset, FS_CardinalityType
  <2>5. req[r].attempt < MaxAttempts
    BY <1>0, <2>3, <2>4 DEF Lost
  <2>6. req'[r].result = req[r].result
    BY <2>2, <2>5 DEF LoseBooking, TypeOK, Handler
  <2> QED
    BY <1>0, <2>6
<1>5. CASE BookAgain(r)
  <2>1. CASE req' = Fetched(r, "write")
    BY <1>0, <2>1 DEF Fetched, TypeOK, Handler
  <2> QED
    BY <1>0, <1>1, <1>5, <2>1 DEF BookAgain
<1>6. CASE \/ UpsertLearner(r) \/ DeleteLearnerData(r) \/ RequireKnownLearner(r)
           \/ ReadForUpdate(r) \/ SetLearnerVisibility(r) \/ SetLearnerApproved(r)
           \/ HandleTutor(r)
  <2>1. \A result : req' = Answered(r, result) => result = "exhausted"
    BY DEF Answered, IdleHandler, TypeOK
  <2>2. \A pc : req' # Fetched(r, pc)
    BY <1>0 DEF Fetched, TypeOK, Handler
  <2> QED
    BY <1>6, <2>1, <2>2 DEF UpsertLearner, DeleteLearnerData, RequireKnownLearner,
       ReadForUpdate, SetLearnerVisibility, SetLearnerApproved, OverwriteState, HandleTutor
<1>7. ASSUME NEW q \in Requests, Handle(q) \/ \E op \in Ops : Start(q, op), q # r
      PROVE  FALSE
  <2>1. ASSUME NEW op \in Ops, Start(q, op) PROVE req'[r] = req[r]
    BY <1>7, <2>1 DEF Start, TypeOK
  <2> QED
    BY <1>2, <1>7, <2>1, HandleShape
<1>8. ASSUME NEW op \in Ops, Start(r, op) PROVE FALSE
  BY <1>0, <1>8 DEF Start, TypeOK, Handler
<1>9. CASE Tick \/ UNCHANGED vars
  BY <1>2, <1>9 DEF Tick, vars
<1> QED
  BY <1>3, <1>4, <1>5, <1>6, <1>7, <1>8, <1>9 DEF Next, Handle

\* bookVoiceUsage's limit on attempts, for every number of attempts and of
\* requests: a mint with fewer rivals than attempts is refused only when the
\* budget is spent, unless an erased meter can be written back.
THEOREM RefusalHolds ==
    ASSUME IsFiniteSet(Requests), MeterNeverRestored
    PROVE  Spec => RefusedOnlyWhenSpent
<1>1. Init => OpsInv /\ RaceInv /\ CoverInv
  <2> SUFFICES ASSUME Init PROVE OpsInv /\ RaceInv /\ CoverInv
    OBVIOUS
  <2>1. \A r \in Requests : req[r] = IdleHandler
    BY DEF Init
  <2>2. OpsInv /\ RaceInv
    BY <2>1 DEF OpsInv, RaceInv, RaceOf, At, IdleHandler
  <2>3. PICK exists, approved \in BOOLEAN :
          row = [NoRow EXCEPT !.exists = exists, !.state.approved = approved]
    BY DEF Init
  <2>4. row.state.voice_usage = [month |-> 0, seconds |-> 0]
    BY <2>3 DEF NoRow, EmptyState
  <2>5. granted[0] = 0 /\ NoRow.state.voice_usage = [month |-> 0, seconds |-> 0]
    BY RowAssumption DEF Init, Months, NoRow, EmptyState
  <2> QED
    BY <2>1, <2>2, <2>4, <2>5 DEF CoverInv, Covered, Meter, IdleHandler
<1>2. /\ TypeOK /\ StampInv /\ OpsInv /\ RaceInv /\ CoverInv /\ [Next]_vars
      => OpsInv' /\ RaceInv' /\ CoverInv'
  BY OpsKept, RaceKept, CoverKept
<1>3. TypeOK /\ RaceInv /\ CoverInv /\ [Next]_vars =>
        [\A r \in Requests :
           /\ Cardinality(Requests \ {r}) < MaxAttempts
           /\ req[r].pc # "done"
           /\ req'[r].result = "exhausted"
           => \E m \in Months : granted[m] + MaxSession > MonthlyCap]_vars
  BY RefusalStep
<1> QED
  BY <1>1, <1>2, <1>3, StampsHold, TypeCorrect, PTL DEF Spec, RefusedOnlyWhenSpent

-----------------------------------------------------------------------------
(***************************************************************************)
(* Answers                                                                 *)
(*                                                                         *)
(* What EveryRequestAnswered rests on, short of fairness: a request in     *)
(* flight is always at a call its handler makes, and each call leaves      *)
(* fewer to make, whatever other requests do meanwhile.                    *)
(***************************************************************************)

\* The D1 calls handler r makes at most until its answer.
CallsLeft(r) ==
    LET h == req[r]
        attempts == MaxAttempts - h.attempt
    IN  CASE h.pc = "known" -> 3
          [] h.pc = "read" /\ h.op = "mint" -> 2 * MaxAttempts
          [] h.pc = "read" /\ h.op = "tutor" -> 1
          [] h.pc = "read" /\ h.op \notin {"mint", "tutor"} -> 2
          [] h.pc = "write" /\ h.op = "mint" -> 2 * attempts + 1
          [] h.pc = "write" /\ h.op # "mint" -> 1
          [] h.pc = "reread" -> 2 * attempts + 2
          [] OTHER -> 0

Updates == VISIBILITY_VALUES \cup {"approve", "revoke"}

\* Where the handlers may be, and that time does not run backwards for them.
HandlerInv ==
    \A r \in Requests :
        /\ req[r].pc = "known" => req[r].op \in {"approve", "revoke"}
        /\ req[r].pc = "read" => req[r].op \in Updates \cup {"tutor", "mint"}
        /\ req[r].pc = "write" => req[r].op \in Updates \cup {"signin", "delete", "mint"}
        /\ req[r].pc = "reread" => req[r].op = "mint"
        /\ req[r].op = "mint" /\ req[r].pc \in {"write", "reread"} => req[r].attempt >= 1
        /\ req[r].since <= clock

\* Handler r stands at one of its calls, with a stamp for the row if stamps
\* may repeat: the call needs nothing else.
AtACall(r) ==
    /\ \/ \E op \in {"approve", "revoke"} : At(r, op, "known")
       \/ \E op \in Updates \cup {"tutor", "mint"} : At(r, op, "read")
       \/ \E op \in Updates \cup {"signin", "delete", "mint"} : At(r, op, "write")
       \/ At(r, "mint", "reread")
    /\ ~UniqueStamps => Stamps(r) # {}

\* No request in flight is ever stuck, and none takes more than three calls or
\* those of a mint that loses all its attempts.
NeverStuck ==
    \A r \in Requests : InFlight(r) =>
        /\ AtACall(r)
        /\ CallsLeft(r) >= 1
        /\ CallsLeft(r) <= 3 \/ CallsLeft(r) <= 2 * MaxAttempts

\* A request's own calls bring it closer to its answer, and no step of
\* another request, no retry and no passing of time takes it further away.
AnswersComeCloser ==
    [][\A r \in Requests : InFlight(r) =>
          req'[r] = req[r] \/ CallsLeft(r)' < CallsLeft(r)]_vars

LEMMA CallsAre ==
    ASSUME TypeOK, HandlerInv, NEW r \in Requests
    PROVE  /\ CallsLeft(r) \in Int
           /\ InFlight(r) => CallsLeft(r) >= 1
           /\ CallsLeft(r) <= 3 \/ CallsLeft(r) <= 2 * MaxAttempts
<1>1. /\ MaxAttempts \in Nat /\ MaxAttempts >= 1
      /\ req[r].attempt \in Int /\ req[r].attempt <= MaxAttempts
      /\ req[r].pc \in Phases
  BY RowAssumption DEF TypeOK, Handler
<1>2. /\ req[r].pc = "reread" => req[r].attempt >= 1
      /\ req[r].pc = "write" /\ req[r].op = "mint" => req[r].attempt >= 1
  BY DEF HandlerInv
<1> QED
  BY <1>1, <1>2 DEF CallsLeft, InFlight, Phases

\* A call of a handler: it answers, or stands at a later one.
LEMMA HandlerMoves ==
    ASSUME TypeOK, HandlerInv, NEW r \in Requests, Handle(r)
    PROVE  /\ CallsLeft(r)' < CallsLeft(r)
           /\ req'[r].pc = "read" => req'[r].op \in Updates
           /\ req'[r].pc = "write" => req'[r].op \in Updates \cup {"mint"}
           /\ req'[r].pc = "reread" => req'[r].op = "mint"
           /\ req'[r].pc # "known"
           /\ req'[r].op = "mint" /\ req'[r].pc \in {"write", "reread"} =>
                 req'[r].attempt >= 1
           /\ req'[r].since <= clock'
<1> DEFINE Moved == /\ CallsLeft(r)' < CallsLeft(r)
                    /\ req'[r].pc = "read" => req'[r].op \in Updates
                    /\ req'[r].pc = "write" => req'[r].op \in Updates \cup {"mint"}
                    /\ req'[r].pc = "reread" => req'[r].op = "mint"
                    /\ req'[r].pc # "known"
                    /\ req'[r].op = "mint" /\ req'[r].pc \in {"write", "reread"} =>
                          req'[r].attempt >= 1
                    /\ req'[r].since <= clock'
<1>1. /\ MaxAttempts \in Nat /\ MaxAttempts >= 1 /\ clock \in Nat
      /\ req[r].attempt \in Int /\ req[r].attempt <= MaxAttempts
      /\ req[r] \in Handler /\ req \in [Requests -> Handler]
  BY RowAssumption DEF TypeOK, Handler
<1>2. InFlight(r)
  BY HandleShape DEF InFlight
<1>3. CallsLeft(r) \in Int /\ CallsLeft(r) >= 1
  BY <1>2, CallsAre
<1>4. clock' = clock
  BY DEF Handle, UpsertLearner, DeleteLearnerData, RequireKnownLearner, ReadForUpdate,
     SetLearnerVisibility, SetLearnerApproved, OverwriteState, HandleTutor,
     HandleVoiceToken, SetLearnerVoiceUsage, WinBooking, LoseBooking, BookAgain
<1>5. ASSUME NEW result, req' = Answered(r, result) PROVE Moved
  <2>1. req'[r].pc = "done" /\ req'[r].since = 0
    BY <1>1, <1>5 DEF Answered, IdleHandler
  <2>2. CallsLeft(r)' = 0
    BY <2>1 DEF CallsLeft
  <2> QED
    BY <1>1, <1>3, <1>4, <2>1, <2>2
<1>6. ASSUME NEW pc \in Phases, req' = Fetched(r, pc)
      PROVE  /\ req'[r].pc = pc /\ req'[r].op = req[r].op /\ req'[r].since = clock
             /\ req'[r].attempt = req[r].attempt
  BY <1>1, <1>6 DEF Fetched, Handler
<1>7. CASE UpsertLearner(r) \/ DeleteLearnerData(r) \/ SetLearnerVisibility(r)
           \/ SetLearnerApproved(r) \/ HandleTutor(r)
  BY <1>5, <1>7 DEF UpsertLearner, DeleteLearnerData, SetLearnerVisibility,
     SetLearnerApproved, OverwriteState, HandleTutor
<1>8. CASE RequireKnownLearner(r)
  <2>1. CASE req' = Fetched(r, "read")
    <3>1. /\ req'[r].pc = "read" /\ req'[r].op = req[r].op /\ req'[r].since = clock
          /\ req[r].pc = "known" /\ req[r].op \in {"approve", "revoke"}
      BY <1>6, <1>8, <2>1 DEF RequireKnownLearner, At, Phases
    <3>2. CallsLeft(r)' = 2 /\ CallsLeft(r) = 3
      BY <3>1 DEF CallsLeft
    <3> QED
      BY <1>1, <1>4, <3>1, <3>2 DEF Updates
  <2> QED
    BY <1>5, <1>8, <2>1 DEF RequireKnownLearner
<1>9. CASE ReadForUpdate(r)
  <2>1. /\ req'[r].pc = "write" /\ req'[r].op = req[r].op /\ req'[r].since = clock
        /\ req[r].pc = "read" /\ req[r].op \in Updates
    BY <1>6, <1>9 DEF ReadForUpdate, At, Phases, Updates
  <2>2. req[r].op # "mint" /\ req[r].op # "tutor"
    BY <2>1 DEF Updates, VISIBILITY_VALUES
  <2>3. CallsLeft(r)' = 1 /\ CallsLeft(r) = 2
    BY <2>1, <2>2 DEF CallsLeft
  <2> QED
    BY <1>1, <1>4, <2>1, <2>2, <2>3
<1>10. CASE HandleVoiceToken(r)
  <2>1. CASE req' = [Fetched(r, "write") EXCEPT ![r].month = month, ![r].attempt = 1]
    <3>1. /\ req'[r].pc = "write" /\ req'[r].op = "mint" /\ req'[r].since = clock
          /\ req'[r].attempt = 1 /\ req[r].pc = "read" /\ req[r].op = "mint"
      BY <1>1, <1>10, <2>1 DEF Fetched, Handler, HandleVoiceToken, At
    <3>2. CallsLeft(r)' = 2 * (MaxAttempts - 1) + 1 /\ CallsLeft(r) = 2 * MaxAttempts
      BY <3>1 DEF CallsLeft
    <3> QED
      BY <1>1, <1>4, <3>1, <3>2
  <2> QED
    BY <1>5, <1>10, <2>1 DEF HandleVoiceToken
<1>11. CASE SetLearnerVoiceUsage(r)
  <2>1. CASE req[r].attempt < MaxAttempts
             /\ req' = [req EXCEPT ![r].pc = "reread", ![r].since = clock, ![r].attempt = @ + 1]
    <3>1. /\ req'[r].pc = "reread" /\ req'[r].op = "mint" /\ req'[r].since = clock
          /\ req'[r].attempt = req[r].attempt + 1
          /\ req[r].pc = "write" /\ req[r].op = "mint"
      BY <1>1, <1>11, <2>1 DEF Handler, SetLearnerVoiceUsage, At
    <3>2. req[r].attempt >= 1
      BY <3>1 DEF HandlerInv
    <3>3. /\ CallsLeft(r)' = 2 * (MaxAttempts - (req[r].attempt + 1)) + 2
          /\ CallsLeft(r) = 2 * (MaxAttempts - req[r].attempt) + 1
      BY <3>1 DEF CallsLeft
    <3> QED
      BY <1>1, <1>4, <3>1, <3>2, <3>3
  <2> QED
    BY <1>5, <1>11, <2>1 DEF SetLearnerVoiceUsage, WinBooking, LoseBooking
<1>12. CASE BookAgain(r)
  <2>1. CASE req' = Fetched(r, "write")
    <3>1. /\ req'[r].pc = "write" /\ req'[r].op = "mint" /\ req'[r].since = clock
          /\ req'[r].attempt = req[r].attempt
          /\ req[r].pc = "reread" /\ req[r].op = "mint"
      BY <1>6, <1>12, <2>1 DEF BookAgain, At, Phases
    <3>2. req[r].attempt >= 1
      BY <3>1 DEF HandlerInv
    <3>3. /\ CallsLeft(r)' = 2 * (MaxAttempts - req[r].attempt) + 1
          /\ CallsLeft(r) = 2 * (MaxAttempts - req[r].attempt) + 2
      BY <3>1 DEF CallsLeft
    <3> QED
      BY <1>1, <1>4, <3>1, <3>2, <3>3
  <2> QED
    BY <1>5, <1>12, <2>1 DEF BookAgain
<1> QED
  BY <1>7, <1>8, <1>9, <1>10, <1>11, <1>12 DEF Handle

\* A request starts at a call of its handler.
LEMMA StartsAtACall ==
    ASSUME TypeOK, NEW r \in Requests, NEW op \in Ops, Start(r, op)
    PROVE  /\ ~InFlight(r) /\ \A q \in Requests \ {r} : req'[q] = req[q]
           /\ req'[r].pc = "known" => req'[r].op \in {"approve", "revoke"}
           /\ req'[r].pc = "read" => req'[r].op \in Updates \cup {"tutor", "mint"}
           /\ req'[r].pc = "write" => req'[r].op \in {"signin", "delete"}
           /\ req'[r].pc \in {"known", "read", "write"}
           /\ req'[r].since = clock /\ clock' = clock
<1>1. op \in AllOps /\ req \in [Requests -> Handler]
  BY RowAssumption DEF TypeOK
<1>2. /\ req'[r].op = op /\ req'[r].since = clock
      /\ req'[r].pc = IF op \in {"approve", "revoke"} THEN "known"
                      ELSE IF op \in {"signin", "delete"} THEN "write" ELSE "read"
      /\ \A q \in Requests \ {r} : req'[q] = req[q]
  BY <1>1 DEF Start, Handler
<1> QED
  BY <1>1, <1>2 DEF Start, InFlight, AllOps, Updates, VISIBILITY_VALUES

LEMMA HandlersHold == Spec => []HandlerInv
<1>1. Init => HandlerInv
  BY DEF Init, IdleHandler, HandlerInv
<1>2. TypeOK /\ HandlerInv /\ [Next]_vars => HandlerInv'
  <2> SUFFICES ASSUME TypeOK, HandlerInv, [Next]_vars PROVE HandlerInv'
    OBVIOUS
  <2> DEFINE Placed(h, now) ==
        /\ h.pc = "known" => h.op \in {"approve", "revoke"}
        /\ h.pc = "read" => h.op \in Updates \cup {"tutor", "mint"}
        /\ h.pc = "write" => h.op \in Updates \cup {"signin", "delete", "mint"}
        /\ h.pc = "reread" => h.op = "mint"
        /\ h.op = "mint" /\ h.pc \in {"write", "reread"} => h.attempt >= 1
        /\ h.since <= now
  <2>1. \A q \in Requests : Placed(req[q], clock)
    BY DEF HandlerInv
  <2>2. SUFFICES \A q \in Requests : Placed(req'[q], clock')
    BY DEF HandlerInv
  <2>3. \A q \in Requests : req[q].since \in Nat /\ clock \in Nat
    BY RowAssumption DEF TypeOK, Handler
  <2>4. ASSUME NEW r \in Requests, Handle(r) PROVE \A q \in Requests : Placed(req'[q], clock')
    <3>1. Placed(req'[r], clock')
      BY <2>4, HandlerMoves
    <3>2. clock' = clock
      BY <2>4 DEF Handle, UpsertLearner, DeleteLearnerData, RequireKnownLearner, ReadForUpdate,
         SetLearnerVisibility, SetLearnerApproved, OverwriteState, HandleTutor,
         HandleVoiceToken, SetLearnerVoiceUsage, WinBooking, LoseBooking, BookAgain
    <3>3. \A q \in Requests \ {r} : req'[q] = req[q]
      BY <2>4, HandleShape
    <3> HIDE DEF Placed
    <3> QED
      BY <2>1, <3>1, <3>2, <3>3
  <2>5. ASSUME NEW r \in Requests, NEW op \in Ops, Start(r, op)
        PROVE  \A q \in Requests : Placed(req'[q], clock')
    <3>1. Placed(req'[r], clock') /\ clock' = clock
      <4>1. req'[r].since <= clock'
        BY <2>3, <2>5, StartsAtACall
      <4>2. req'[r].op = "mint" => req'[r].pc # "write"
        BY <2>5, StartsAtACall
      <4> QED
        BY <2>5, <4>1, <4>2, StartsAtACall
    <3>2. \A q \in Requests \ {r} : req'[q] = req[q]
      BY <2>5, StartsAtACall
    <3> HIDE DEF Placed
    <3> QED
      BY <2>1, <3>1, <3>2
  <2>6. CASE Tick
    BY <2>1, <2>3, <2>6 DEF Tick
  <2>7. CASE UNCHANGED vars
    BY <2>1, <2>7 DEF vars
  <2> QED
    BY <2>4, <2>5, <2>6, <2>7 DEF Next
<1> QED
  BY <1>1, <1>2, TypeCorrect, PTL DEF Spec

\* For any requests and any number of attempts, every request in flight is at
\* a call it can make (where stamps may repeat, unconditionally), and takes no
\* more than 2 * MaxAttempts calls, or three.
THEOREM StuckNever == Spec => []NeverStuck
<1>1. TypeOK /\ HandlerInv => NeverStuck
  <2> SUFFICES ASSUME TypeOK, HandlerInv, NEW r \in Requests, InFlight(r)
               PROVE  AtACall(r)
    BY CallsAre DEF NeverStuck
  <2>1. req[r].pc \in {"known", "read", "write", "reread"}
    BY DEF TypeOK, Handler, Phases, InFlight
  <2>2. ~UniqueStamps => Stamps(r) # {}
    <3>1. req[r].since \in Nat /\ clock \in Nat /\ req[r].since <= clock
      BY RowAssumption DEF TypeOK, Handler, HandlerInv
    <3>2. clock \in req[r].since .. clock
      BY <3>1
    <3> QED
      BY <3>2 DEF Stamps
  <2> QED
    BY <2>1, <2>2 DEF HandlerInv, AtACall, At
<1> QED
  BY <1>1, HandlersHold, TypeCorrect, PTL

\* For any requests, operations and number of attempts, a request only gets
\* closer to its answer.
THEOREM AnswersHold == Spec => AnswersComeCloser
<1>1. TypeOK /\ HandlerInv /\ [Next]_vars =>
        \A r \in Requests : InFlight(r) => req'[r] = req[r] \/ CallsLeft(r)' < CallsLeft(r)
  <2> SUFFICES ASSUME TypeOK, HandlerInv, [Next]_vars, NEW r \in Requests, InFlight(r)
               PROVE  req'[r] = req[r] \/ CallsLeft(r)' < CallsLeft(r)
    OBVIOUS
  <2>1. ASSUME NEW q \in Requests, Handle(q)
        PROVE  req'[r] = req[r] \/ CallsLeft(r)' < CallsLeft(r)
    BY <2>1, HandleShape, HandlerMoves
  <2>2. ASSUME NEW q \in Requests, NEW op \in Ops, Start(q, op) PROVE req'[r] = req[r]
    BY <2>2, StartsAtACall
  <2>3. CASE Tick \/ UNCHANGED vars
    BY <2>3 DEF Tick, vars
  <2> QED
    BY <2>1, <2>2, <2>3 DEF Next
<1> QED
  BY <1>1, HandlersHold, TypeCorrect, PTL DEF Spec, AnswersComeCloser
=============================================================================
