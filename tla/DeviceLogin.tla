---------------------------- MODULE DeviceLogin ----------------------------
(***************************************************************************)
(* `learn auth login` and `learn auth logout`: the device flow's polling   *)
(* loop, the session file auth.json it ends in, and the sign-out that      *)
(* revokes a session and deletes the file.                                 *)
(*                                                                         *)
(* Commands are processes and share only the file, without a lock.  A      *)
(* session is named after the login it was issued to.  Time is counted in  *)
(* default intervals (5 s), the amount slow_down adds to the interval.     *)
(***************************************************************************)
EXTENDS Integers

CONSTANTS
    Logins,       \* invocations of `learn auth login`, and their sessions
    Logouts,      \* invocations of `learn auth logout`
    ExpiresIn,    \* the life of a device code
    MaxInterval,  \* bound: the longest interval slow_down leads to
    NoSession,    \* no auth.json
    Unreadable    \* an auth.json that does not parse

ASSUME LoginAssumption ==
    /\ Logins \cap Logouts = {}
    /\ NoSession \notin Logins /\ Unreadable \notin Logins
    /\ NoSession # Unreadable
    /\ ExpiresIn \in Nat /\ MaxInterval \in Nat \ {0}

VARIABLES
    auth,       \* auth.json
    opened,     \* logins writing to the file that is auth.json now
    code,       \* device codes, as GitHub sees them
    consented,  \* whether the learner consented to the current terms
    live,       \* full sessions the API accepts
    pending,    \* pending-consent sessions it issued
    step,       \* where a command is
    elapsed,    \* how long a login has slept
    interval,   \* its poll interval
    held,       \* the session a logout loaded
    outcome,    \* what a command told the learner
    mishaps     \* history: what may leave a session without its file

Commands == Logins \cup Logouts
loginVars == <<auth, opened, code, consented, live, pending, step, elapsed,
               interval, held, outcome, mishaps>>

Codes == {"none", "open", "confirmed", "spent"}
Steps == {"idle", "looping", "polling", "complete", "writing",
          "revoking", "clearing", "unlinking", "over"}
Outcomes == {"none", "signed in", "not started", "poll failed",
             "unexpected status", "timed out", "signed out", "error"}
Mishaps == {"overlap", "signed in twice", "lost answer", "not revoked", "died"}

TypeOK ==
    /\ auth \in Logins \cup {NoSession, Unreadable}
    /\ opened \subseteq Logins
    /\ code \in [Logins -> Codes]
    /\ consented \in BOOLEAN
    /\ live \subseteq Logins /\ pending \subseteq Logins \ live
    /\ step \in [Commands -> Steps]
    /\ elapsed \in [Logins -> 0..(ExpiresIn + MaxInterval)]
    /\ interval \in [Logins -> 1..MaxInterval]
    /\ held \in [Logouts -> Logins \cup {NoSession}]
    /\ outcome \in [Commands -> Outcomes]
    /\ mishaps \subseteq Mishaps

Active(c) == step[c] \notin {"idle", "over"}
Goto(c, s) == step' = [step EXCEPT ![c] = s]
Ends(c, said) ==
    /\ Goto(c, "over")
    /\ outcome' = [outcome EXCEPT ![c] = said]

\* What starting a command next to a running one, or a login on top of a
\* session, may do to the sessions.
StartMishaps(c) ==
    {m \in {"overlap"} : \E d \in Commands : Active(d)}
    \cup {m \in {"signed in twice"} : c \in Logins /\ auth # NoSession}

-----------------------------------------------------------------------------
\* learn auth login

\* _start_device_flow: no start, or a start without its fields, is an error.
StartDeviceFlow(l) ==
    /\ step[l] = "idle"
    /\ \/ Goto(l, "looping") /\ code' = [code EXCEPT ![l] = "open"]
          /\ UNCHANGED outcome
       \/ Ends(l, "not started") /\ UNCHANGED code
    /\ mishaps' = mishaps \cup StartMishaps(l)
    /\ UNCHANGED <<auth, opened, consented, live, pending, elapsed, interval, held>>

\* Mutant: the loop leaves a round early.
SleepWithinExpiry(l) ==
    /\ step[l] = "looping"
    /\ IF elapsed[l] + interval[l] <= ExpiresIn
       THEN /\ elapsed' = [elapsed EXCEPT ![l] = @ + interval[l]]
            /\ Goto(l, "polling")
            /\ UNCHANGED outcome
       ELSE Ends(l, "timed out") /\ UNCHANGED elapsed
    /\ UNCHANGED <<auth, opened, code, consented, live, pending, interval, held, mishaps>>

\* The head of the loop: sleep first, then poll, until the code is past its
\* life.
Sleep(l) ==
    /\ step[l] = "looping"
    /\ IF elapsed[l] <= ExpiresIn
       THEN /\ elapsed' = [elapsed EXCEPT ![l] = @ + interval[l]]
            /\ Goto(l, "polling")
            /\ UNCHANGED outcome
       ELSE Ends(l, "timed out") /\ UNCHANGED elapsed
    /\ UNCHANGED <<auth, opened, code, consented, live, pending, interval, held, mishaps>>

\* Mutant: slow_down starts the count again.
PendingRestarts(l) ==
    /\ step[l] = "polling"
    /\ code[l] = "open"
    /\ \/ UNCHANGED <<interval, elapsed>>
       \/ /\ interval[l] < MaxInterval
          /\ interval' = [interval EXCEPT ![l] = @ + 1]
          /\ UNCHANGED elapsed
       \/ elapsed' = [elapsed EXCEPT ![l] = 0] /\ UNCHANGED interval
    /\ Goto(l, "looping")
    /\ UNCHANGED <<auth, opened, code, consented, live, pending, held, outcome, mishaps>>

\* _await_device_confirmation: pending, and perhaps slow_down ...
Pending(l) ==
    /\ step[l] = "polling"
    /\ code[l] = "open"
    /\ \/ UNCHANGED interval
       \/ /\ interval[l] < MaxInterval
          /\ interval' = [interval EXCEPT ![l] = @ + 1]
    /\ Goto(l, "looping")
    /\ UNCHANGED <<auth, opened, code, consented, live, pending, elapsed, held,
                   outcome, mishaps>>

\* ... complete, with the session the API just issued ...
Complete(l) ==
    /\ step[l] = "polling"
    /\ code[l] = "confirmed" /\ consented
    /\ code' = [code EXCEPT ![l] = "spent"]
    /\ live' = live \cup {l}
    /\ Goto(l, "complete")
    /\ UNCHANGED <<auth, opened, consented, pending, elapsed, interval, held,
                   outcome, mishaps>>

\* Mutant: any answer with a token signs in.
AcceptPending(l) ==
    /\ step[l] = "polling"
    /\ code[l] = "confirmed" /\ ~consented
    /\ code' = [code EXCEPT ![l] = "spent"]
    /\ pending' = pending \cup {l}
    /\ Goto(l, "complete")
    /\ UNCHANGED <<auth, opened, consented, live, elapsed, interval, held,
                   outcome, mishaps>>

\* ... any other status, of which the API has one: consent_required, with a
\* pending-consent session this command knows nothing of ...
UnexpectedStatus(l) ==
    /\ step[l] = "polling"
    /\ code[l] = "confirmed" /\ ~consented
    /\ code' = [code EXCEPT ![l] = "spent"]
    /\ pending' = pending \cup {l}
    /\ Ends(l, "unexpected status")
    /\ UNCHANGED <<auth, opened, consented, live, elapsed, interval, held, mishaps>>

\* ... or an ApiError: unreachable, an expired or denied code, or an answer
\* lost after the session was issued.
PollFails(l) ==
    /\ step[l] = "polling"
    /\ Ends(l, "poll failed")
    /\ \/ UNCHANGED <<code, live, mishaps>>
       \/ /\ code[l] = "confirmed" /\ consented
          /\ code' = [code EXCEPT ![l] = "spent"]
          /\ live' = live \cup {l}
          /\ mishaps' = mishaps \cup {"lost answer"}
    /\ UNCHANGED <<auth, opened, consented, pending, elapsed, interval, held>>

\* save_auth: write_text opens the file, which empties it ...
OpenAuth(l) ==
    /\ step[l] = "complete"
    /\ auth' = Unreadable
    /\ opened' = opened \cup {l}
    /\ Goto(l, "writing")
    /\ UNCHANGED <<code, consented, live, pending, elapsed, interval, held,
                   outcome, mishaps>>

\* ... and writes it.  A file deleted meanwhile takes the session with it;
\* one another login wrote meanwhile may be left with the end of the longer.
WriteAuth(l) ==
    /\ step[l] = "writing"
    /\ auth' \in IF l \notin opened THEN {auth}
                 ELSE IF auth = Unreadable THEN {l} ELSE {l, Unreadable}
    /\ opened' = opened \ {l}
    /\ Ends(l, "signed in")
    /\ UNCHANGED <<code, consented, live, pending, elapsed, interval, held, mishaps>>

-----------------------------------------------------------------------------
\* learn auth logout

\* Mutant: a file that does not parse is taken for a session.
LoadAnything(o) ==
    /\ step[o] = "idle"
    /\ IF auth # NoSession
       THEN held' = [held EXCEPT ![o] = auth] /\ Goto(o, "revoking")
       ELSE Goto(o, "clearing") /\ UNCHANGED held
    /\ mishaps' = mishaps \cup StartMishaps(o)
    /\ UNCHANGED <<auth, opened, code, consented, live, pending, elapsed,
                   interval, outcome>>

\* load_auth: a damaged file counts as signed out.
LoadAuth(o) ==
    /\ step[o] = "idle"
    /\ IF auth \in Logins
       THEN held' = [held EXCEPT ![o] = auth] /\ Goto(o, "revoking")
       ELSE Goto(o, "clearing") /\ UNCHANGED held
    /\ mishaps' = mishaps \cup StartMishaps(o)
    /\ UNCHANGED <<auth, opened, code, consented, live, pending, elapsed,
                   interval, outcome>>

\* Mutant: the request is not made at all.
RevokeForgotten(o) ==
    /\ step[o] = "revoking"
    /\ Goto(o, "clearing")
    /\ UNCHANGED <<auth, opened, code, consented, live, pending, elapsed,
                   interval, held, outcome, mishaps>>

\* device_logout: revoked, refused, not reached, or revoked without an
\* answer; whichever it was, the local sign-out goes on.
Revoke(o) ==
    /\ step[o] = "revoking"
    /\ \/ live' = live \ {held[o]} /\ UNCHANGED mishaps
       \/ UNCHANGED live /\ mishaps' = mishaps \cup {"not revoked"}
    /\ Goto(o, "clearing")
    /\ UNCHANGED <<auth, opened, code, consented, pending, elapsed, interval,
                   held, outcome>>

\* clear_auth: look for the file, then delete it.
FindAuth(o) ==
    /\ step[o] = "clearing"
    /\ IF auth = NoSession THEN Ends(o, "signed out")
                           ELSE Goto(o, "unlinking") /\ UNCHANGED outcome
    /\ UNCHANGED <<auth, opened, code, consented, live, pending, elapsed,
                   interval, held, mishaps>>

UnlinkAuth(o) ==
    /\ step[o] = "unlinking"
    /\ IF auth = NoSession THEN Ends(o, "error") /\ UNCHANGED <<auth, opened>>
       ELSE auth' = NoSession /\ opened' = {} /\ Ends(o, "signed out")
    /\ UNCHANGED <<code, consented, live, pending, elapsed, interval, held, mishaps>>

Dies(c) ==
    /\ Active(c)
    /\ Ends(c, "none")
    /\ opened' = opened \ {c}
    /\ mishaps' = mishaps \cup {"died"}
    /\ UNCHANGED <<auth, code, consented, live, pending, elapsed, interval, held>>

-----------------------------------------------------------------------------
\* The learner, in a browser

\* The code is entered while it lives.
Confirm(l) ==
    /\ code[l] = "open" /\ elapsed[l] <= ExpiresIn
    /\ code' = [code EXCEPT ![l] = "confirmed"]
    /\ UNCHANGED <<auth, opened, consented, live, pending, step, elapsed,
                   interval, held, outcome, mishaps>>

Consent ==
    /\ ~consented
    /\ consented' = TRUE
    /\ UNCHANGED <<auth, opened, code, live, pending, step, elapsed, interval,
                   held, outcome, mishaps>>

Init ==
    /\ auth = NoSession
    /\ opened = {}
    /\ code = [l \in Logins |-> "none"]
    /\ consented = FALSE
    /\ live = {} /\ pending = {}
    /\ step = [c \in Commands |-> "idle"]
    /\ elapsed = [l \in Logins |-> 0]
    /\ interval = [l \in Logins |-> 1]
    /\ held = [o \in Logouts |-> NoSession]
    /\ outcome = [c \in Commands |-> "none"]
    /\ mishaps = {}

\* A login, once started, at work: its process and its calls' timeouts.
Login(l) ==
    \/ Sleep(l) \/ Pending(l) \/ Complete(l) \/ UnexpectedStatus(l)
    \/ PollFails(l) \/ OpenAuth(l) \/ WriteAuth(l)

Logout(o) == LoadAuth(o) \/ Revoke(o) \/ FindAuth(o) \/ UnlinkAuth(o)

Next ==
    \/ \E l \in Logins : StartDeviceFlow(l) \/ Login(l) \/ Confirm(l)
    \/ \E o \in Logouts : Logout(o)
    \/ \E c \in Commands : Dies(c)
    \/ Consent

Fairness == \A l \in Logins : WF_loginVars(Login(l))

Spec == Init /\ [][Next]_loginVars /\ Fairness

-----------------------------------------------------------------------------
\* Properties

\* Only an answer "complete" is stored: the file never holds the session of
\* a learner who has not consented yet, nor one the API never issued.
OnlyFullSessionsStored ==
    auth \in Logins => auth \notin pending /\ code[auth] = "spent"

\* A learner who entered the code in time is never told that nobody did: the
\* loop's last poll comes after the code's life, whatever slow_down did.
TimedOutMeansUnconfirmed ==
    \A l \in Logins : outcome[l] = "timed out" => code[l] = "open"

\* Every session the API accepts is in the file, or on its way there, or
\* about to be revoked: none is left that no sign-out can reach, unless
\* commands overlapped, a login replaced a session, an answer was lost, a
\* revocation failed, or a command died.
SessionsInReach ==
    mishaps = {} =>
        \A l \in live : auth = l \/ step[l] \in {"complete", "writing"}

\* The loop ends: however often the API says pending or slow_down, the
\* command stops by itself.
LoginEnds == \A l \in Logins : Active(l) ~> ~Active(l)

=============================================================================
