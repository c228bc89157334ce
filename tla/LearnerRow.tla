----------------------------- MODULE LearnerRow -----------------------------
(***************************************************************************)
(* One learner's row of the D1 table `learners` under concurrent requests  *)
(* to the learn-api Worker.                                                *)
(*                                                                         *)
(* The row carries a JSON blob (visibility, approved, voice_usage) and the *)
(* stamp updated_at.  Every `await` on D1 is a point where another request *)
(* may run, so a handler is one action per D1 call.  Two kinds of writers  *)
(* share the blob: plain read-then-write (setLearnerVisibility,            *)
(* setLearnerApproved) and the compare-and-swap on updated_at that books   *)
(* voice seconds (setLearnerVoiceUsage).                                   *)
(*                                                                         *)
(* Requests start here once requireConsented / requireAdmin let them in;   *)
(* module Account models those gates.  They hold at the time they read,    *)
(* so nothing about them is assumed afterwards.                            *)
(***************************************************************************)
EXTENDS Integers, FiniteSets

CONSTANTS
    Requests,       \* ids of the requests a behavior serves, each used once
    Ops,            \* what those requests do, a subset of AllOps
    MaxSession,     \* VOICE_MAX_SESSION_SECONDS: what one mint books
    MonthlyCap,     \* VOICE_MONTHLY_SECONDS_CAP
    MaxAttempts,    \* MAX_VOICE_BOOKING_ATTEMPTS
    MaxClock,       \* bound: milliseconds a behavior lasts
    MaxMonth,       \* bound: month rollovers a behavior sees
    UniqueStamps    \* TRUE: no two writes of the row draw the same millisecond

VISIBILITY_VALUES == {"private", "public"}

\* A visibility request is named by the value it sets.
AllOps == VISIBILITY_VALUES \cup
          {"mint", "tutor", "approve", "revoke", "signin", "delete"}

ASSUME RowAssumption ==
    /\ Ops \subseteq AllOps
    /\ MaxSession \in Nat \ {0}
    /\ MonthlyCap \in Nat \ {0}
    /\ MaxAttempts \in Nat \ {0}
    /\ MaxClock \in Nat
    /\ MaxMonth \in Nat
    /\ UniqueStamps \in BOOLEAN

Months == 0 .. MaxMonth

VARIABLES
    clock,      \* Date.now(), in milliseconds
    month,      \* voiceMonthKey of the clock
    row,        \* the learners row
    req,        \* the in-flight state of every request's handler
    \* History variables: they never enable or disable a step.
    granted,    \* month -> seconds of the voice tokens returned to this row
    clobbered,  \* a write discarded state that it had not read
    withdrawn,  \* approval was withdrawn, and no approve request is or was
                \* running since
    stamps      \* every updated_at value ever written

vars == <<clock, month, row, req, granted, clobbered, withdrawn, stamps>>

-----------------------------------------------------------------------------
(* The row and the handlers' local state *)

Usage == [month : Months, seconds : Nat]
State == [visibility : VISIBILITY_VALUES, approved : BOOLEAN, voice_usage : Usage]
Row   == [exists : BOOLEAN, state : State, updated_at : Nat]

\* The blob '{}': every reader takes an absent key for one of these values.
EmptyState == [visibility  |-> "private",
               approved    |-> FALSE,
               voice_usage |-> [month |-> 0, seconds |-> 0]]

NoRow == [exists |-> FALSE, state |-> EmptyState, updated_at |-> 0]

Phases  == {"idle", "known", "read", "write", "reread", "done"}
Results == {"none", "ok", "forbidden", "exhausted", "not_found", "error"}

Handler == [op      : AllOps \cup {"none"},
            pc      : Phases,
            seen    : Row,      \* what the handler's last getLearner returned
            month   : Months,   \* the month a mint fixed at its start
            attempt : 0 .. MaxAttempts,   \* of bookVoiceUsage's loop
            since   : Nat,      \* when the handler's last I/O returned
            result  : Results]

IdleHandler == [op |-> "none", pc |-> "idle", seen |-> NoRow, month |-> 0,
                attempt |-> 0, since |-> 0, result |-> "none"]

TypeOK ==
    /\ clock \in 0 .. MaxClock
    /\ month \in Months
    /\ row \in Row
    /\ req \in [Requests -> Handler]
    /\ granted \in [Months -> Nat]
    /\ clobbered \in BOOLEAN
    /\ withdrawn \in BOOLEAN
    /\ stamps \subseteq Nat

\* A behavior starts without the row, with one made by a sign-in, or with one
\* that an admin then approved.
Init ==
    /\ clock = 0
    /\ month = 0
    /\ \E exists, approved \in BOOLEAN :
         /\ approved => exists
         /\ row = [NoRow EXCEPT !.exists = exists, !.state.approved = approved]
         /\ withdrawn = ~approved
    /\ req = [r \in Requests |-> IdleHandler]
    /\ granted = [m \in Months |-> 0]
    /\ clobbered = FALSE
    /\ stamps = {0}

-----------------------------------------------------------------------------
(* Helpers *)

At(r, op, pc) == req[r].op = op /\ req[r].pc = pc

InFlight(r) == req[r].pc \notin {"idle", "done"}

ApproveRunning == \E r \in Requests : req[r].op = "approve" /\ InFlight(r)

\* getLearner has returned the row to handler r, which goes on at pc.
Fetched(r, pc) ==
    [req EXCEPT ![r].seen = row, ![r].pc = pc, ![r].since = clock]

Answered(r, result) ==
    [req EXCEPT ![r] = [IdleHandler EXCEPT !.op = req[r].op,
                                           !.pc = "done", !.result = result]]

\* The values new Date() may take in handler r between its last I/O and the
\* write it is about to make.
Stamps(r) == {now \in req[r].since .. clock : UniqueStamps => now \notin stamps}

ApprovedOf(learner) == learner.exists /\ learner.state.approved

\* Seconds minted against month m; a row of another month reads as zero.
VoiceSecondsUsed(learner, m) ==
    IF learner.exists /\ learner.state.voice_usage.month = m
    THEN learner.state.voice_usage.seconds
    ELSE 0

\* Mutant: the gate lets a session start that will run over the cap.
HasAnyRoom(learner, m) == VoiceSecondsUsed(learner, m) < MonthlyCap

HasRoom(learner, m) == VoiceSecondsUsed(learner, m) + MaxSession <= MonthlyCap

-----------------------------------------------------------------------------
(* Time and arrival of requests *)

Tick ==
    /\ clock < MaxClock
    /\ clock' = clock + 1
    /\ month' \in {month, month + 1} \cap Months
    /\ UNCHANGED <<row, req, granted, clobbered, withdrawn, stamps>>

Start(r, op) ==
    /\ req[r].pc = "idle"
    /\ req' = [req EXCEPT ![r].op = op,
                          ![r].pc = IF op \in {"approve", "revoke"}
                                    THEN "known"
                                    ELSE IF op \in {"signin", "delete"}
                                         THEN "write" ELSE "read",
                          ![r].since = clock]
    /\ withdrawn' = (withdrawn /\ op # "approve")
    /\ UNCHANGED <<clock, month, row, granted, clobbered, stamps>>

-----------------------------------------------------------------------------
(* Sign-in and erasure *)

\* INSERT the row with an empty blob, or refresh its stamp.
UpsertLearner(r) ==
    /\ At(r, "signin", "write")
    /\ \E now \in Stamps(r) :
         /\ row' = [row EXCEPT !.exists = TRUE, !.updated_at = now]
         /\ stamps' = stamps \cup {now}
    /\ req' = Answered(r, "ok")
    /\ UNCHANGED <<clock, month, granted, clobbered, withdrawn>>

\* The batch that erases the learner; a later row starts a new meter.
DeleteLearnerData(r) ==
    /\ At(r, "delete", "write")
    /\ row' = NoRow
    /\ granted' = [m \in Months |-> 0]
    /\ withdrawn' = ~ApproveRunning
    /\ req' = Answered(r, "ok")
    /\ UNCHANGED <<clock, month, clobbered, stamps>>

-----------------------------------------------------------------------------
(* Plain read-then-write of the blob *)

\* approve and revoke look the target up before anything else.
RequireKnownLearner(r) ==
    /\ \E op \in {"approve", "revoke"} : At(r, op, "known")
    /\ req' = IF row.exists THEN Fetched(r, "read") ELSE Answered(r, "not_found")
    /\ UNCHANGED <<clock, month, row, granted, clobbered, withdrawn, stamps>>

\* The getLearner inside setLearnerVisibility and setLearnerApproved.
ReadForUpdate(r) ==
    /\ \E op \in VISIBILITY_VALUES \cup {"approve", "revoke"} : At(r, op, "read")
    /\ req' = Fetched(r, "write")
    /\ UNCHANGED <<clock, month, row, granted, clobbered, withdrawn, stamps>>

\* Mutant: a plain write that forgets to move the stamp.
OverwriteStateOnly(r, state) ==
    /\ row' = IF row.exists THEN [row EXCEPT !.state = state] ELSE row
    /\ clobbered' = (clobbered \/ (row.exists /\ row.state # req[r].seen.state))
    /\ req' = Answered(r, "ok")
    /\ UNCHANGED <<clock, month, granted, stamps>>

\* UPDATE learners SET state, updated_at: unconditional, matches the row if it
\* is there.
OverwriteState(r, state) ==
    /\ \/ /\ row.exists
          /\ \E now \in Stamps(r) :
               /\ row' = [row EXCEPT !.state = state, !.updated_at = now]
               /\ stamps' = stamps \cup {now}
       \/ ~row.exists /\ UNCHANGED <<row, stamps>>
    /\ clobbered' = (clobbered \/ (row.exists /\ row.state # req[r].seen.state))
    /\ req' = Answered(r, "ok")
    /\ UNCHANGED <<clock, month, granted>>

SetLearnerVisibility(r) ==
    /\ \E v \in VISIBILITY_VALUES :
         /\ At(r, v, "write")
         /\ OverwriteState(r, [req[r].seen.state EXCEPT !.visibility = v])
    /\ UNCHANGED withdrawn

SetLearnerApproved(r) ==
    \/ /\ At(r, "approve", "write")
       /\ OverwriteState(r, [req[r].seen.state EXCEPT !.approved = TRUE])
       /\ UNCHANGED withdrawn
    \/ /\ At(r, "revoke", "write")
       /\ OverwriteState(r, [req[r].seen.state EXCEPT !.approved = FALSE])
       /\ withdrawn' = ~ApproveRunning

-----------------------------------------------------------------------------
(* The approval gate: text tutoring and voice tokens *)

\* The learner read of handleTutor; past the gate the call goes upstream.
HandleTutor(r) ==
    /\ At(r, "tutor", "read")
    /\ req' = Answered(r, IF ApprovedOf(row) THEN "ok" ELSE "forbidden")
    /\ UNCHANGED <<clock, month, row, granted, clobbered, withdrawn, stamps>>

\* handleVoiceToken up to its first booking attempt.
HandleVoiceToken(r) ==
    /\ At(r, "mint", "read")
    /\ req' = IF ~ApprovedOf(row) THEN Answered(r, "forbidden")
              ELSE IF ~HasRoom(row, month) THEN Answered(r, "exhausted")
              ELSE [Fetched(r, "write") EXCEPT ![r].month = month,
                                               ![r].attempt = 1]
    /\ UNCHANGED <<clock, month, row, granted, clobbered, withdrawn, stamps>>

\* Mutant: retries without counting up to the limit.
LoseBookingUncounted(r) ==
    /\ req' = [req EXCEPT ![r].pc = "reread", ![r].since = clock, ![r].attempt = @ + 1]
    /\ UNCHANGED <<clock, month, row, granted, clobbered, withdrawn, stamps>>

\* Mutant: repeats the same compare-and-swap until it lands.
LoseBookingSpin(r) == UNCHANGED vars

\* Mutant: refuses on the first lost race.
LoseBookingAtOnce(r) ==
    /\ req' = Answered(r, "exhausted")
    /\ UNCHANGED <<clock, month, row, granted, clobbered, withdrawn, stamps>>

\* A lost compare-and-swap: another attempt, or refused after the last one.
LoseBooking(r) ==
    /\ req' = IF req[r].attempt < MaxAttempts
              THEN [req EXCEPT ![r].pc = "reread", ![r].since = clock,
                               ![r].attempt = @ + 1]
              ELSE Answered(r, "exhausted")
    /\ UNCHANGED <<clock, month, row, granted, clobbered, withdrawn, stamps>>

\* Mutant: the UPDATE without its AND updated_at = ?.
StampIgnored(r) == row.exists

\* The row is still at the stamp that handler r read.
StampMatches(r) == row.exists /\ row.updated_at = req[r].seen.updated_at

\* The compare-and-swap lands: the booking is in, the token leaves the Worker.
WinBooking(r) ==
    LET h    == req[r]
        used == VoiceSecondsUsed(h.seen, h.month) + MaxSession
    IN  /\ \E now \in Stamps(r) :
             /\ row' = [row EXCEPT
                          !.state = [h.seen.state EXCEPT
                             !.voice_usage = [month |-> h.month, seconds |-> used]],
                          !.updated_at = now]
             /\ stamps' = stamps \cup {now}
        /\ granted' = [granted EXCEPT ![h.month] = @ + MaxSession]
        /\ clobbered' = (clobbered \/ row.state.voice_usage.month > h.month)
        /\ req' = Answered(r, "ok")
        /\ UNCHANGED <<clock, month, withdrawn>>

\* One setLearnerVoiceUsage of bookVoiceUsage's loop.  Without a row to read
\* the expected stamp is undefined, which D1 refuses to bind: a 500.
SetLearnerVoiceUsage(r) ==
    /\ At(r, "mint", "write")
    /\ \/ /\ ~req[r].seen.exists
          /\ req' = Answered(r, "error")
          /\ UNCHANGED <<clock, month, row, granted, clobbered, withdrawn, stamps>>
       \/ req[r].seen.exists /\ StampMatches(r) /\ WinBooking(r)
       \/ req[r].seen.exists /\ ~StampMatches(r) /\ LoseBooking(r)

\* Mutant: a later attempt trusts the first check of the cap.
BookAgainUnchecked(r) ==
    /\ At(r, "mint", "reread")
    /\ req' = Fetched(r, "write")
    /\ UNCHANGED <<clock, month, row, granted, clobbered, withdrawn, stamps>>

\* A later attempt starts from a fresh read and checks the cap against it.
BookAgain(r) ==
    /\ At(r, "mint", "reread")
    /\ req' = IF HasRoom(row, req[r].month) THEN Fetched(r, "write")
              ELSE Answered(r, "exhausted")
    /\ UNCHANGED <<clock, month, row, granted, clobbered, withdrawn, stamps>>

-----------------------------------------------------------------------------

\* The next D1 call of the handler of request r.
Handle(r) ==
    \/ UpsertLearner(r)
    \/ DeleteLearnerData(r)
    \/ RequireKnownLearner(r)
    \/ ReadForUpdate(r)
    \/ SetLearnerVisibility(r)
    \/ SetLearnerApproved(r)
    \/ HandleTutor(r)
    \/ HandleVoiceToken(r)
    \/ SetLearnerVoiceUsage(r)
    \/ BookAgain(r)

Next ==
    \/ Tick
    \/ \E r \in Requests : Handle(r) \/ \E op \in Ops : Start(r, op)

Spec == Init /\ [][Next]_vars

\* The platform runs an accepted request to its answer.
FairSpec == Spec /\ \A r \in Requests : WF_vars(Handle(r))

-----------------------------------------------------------------------------
(* Properties *)

Budget == INSTANCE VoiceBudget
    WITH MaxSession <- MaxSession, MonthlyCap <- MonthlyCap, Months <- Months,
         granted <- granted

\* Where nothing writes the blob plainly and no month ends, racing mints,
\* sign-ins and erasures implement the atomic budget: a booking that lands is
\* one abstract Book, a lost attempt or a retry is no step at all.
BookingIsAtomic == Budget!Spec

\* With distinct stamps, a booking whose stamp still matches is about to be
\* written over exactly the blob it was computed from: the "read once, CAS
\* against exactly what you read" contract of getLearner's callers.
BookingIsFresh ==
    UniqueStamps =>
      \A r \in Requests :
        At(r, "mint", "write") /\ req[r].seen.exists /\ StampMatches(r)
          => row.state = req[r].seen.state

\* The promise of the monthly budget: the tokens handed out in a month never
\* book more than the cap, no matter how many requests race.
BudgetWithinCap == \A m \in Months : granted[m] <= MonthlyCap

\* With distinct stamps, the budget can only be overrun after a write discarded
\* a meter it had not read: a plain blob write, or a late booking of the
\* previous month.
BudgetUnlessClobbered == UniqueStamps /\ ~clobbered => BudgetWithinCap

\* With distinct stamps, once approval is withdrawn - revoked, or erased with
\* the account - no mixture of requests brings it back, as long as no write
\* discarded state it had not read.
WithdrawnUnlessClobbered ==
    UniqueStamps /\ ~clobbered /\ withdrawn => ~ApprovedOf(row)

\* Whatever is lost, the meter itself stays within the cap: a refused learner
\* is never shown a negative remainder.
MeterWithinCap ==
    row.exists => row.state.voice_usage.seconds <= MonthlyCap

\* A service call is answered ok only while approval has not been withdrawn:
\* revoking takes effect immediately, and approval never survives deletion.
NoServiceWhileWithdrawn ==
    [][\A r \in Requests :
         /\ req[r].op \in {"tutor", "mint"}
         /\ req[r].pc # "done"
         /\ req'[r].result = "ok"
         => ~withdrawn]_vars

\* Each request writes the row at most once, so a mint needs at least
\* MaxAttempts rival requests to run out of attempts: with fewer it is refused
\* for lack of budget only when the budget is spent.
RefusedOnlyWhenSpent ==
    [][\A r \in Requests :
         /\ Cardinality(Requests \ {r}) < MaxAttempts
         /\ req[r].pc # "done"
         /\ req'[r].result = "exhausted"
         => \E m \in Months : granted[m] + MaxSession > MonthlyCap]_vars

\* Every accepted request is answered.
EveryRequestAnswered ==
    \A r \in Requests : InFlight(r) ~> req[r].pc = "done"
=============================================================================
