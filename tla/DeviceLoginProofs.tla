------------------------- MODULE DeviceLoginProofs -------------------------
(***************************************************************************)
(* DeviceLogin for any number of logins and logouts, every life of a       *)
(* device code and every longest interval: typing, what auth.json may      *)
(* hold, what a timed-out login means, which sessions stay in reach, and   *)
(* that a login's steps run out.                                           *)
(***************************************************************************)
EXTENDS DeviceLogin, TLAPS

LEMMA NextCases ==
    ASSUME [Next]_loginVars
    PROVE  \/ \E l \in Logins : \/ StartDeviceFlow(l) \/ Sleep(l) \/ Pending(l)
                                \/ Complete(l) \/ UnexpectedStatus(l) \/ PollFails(l)
                                \/ OpenAuth(l) \/ WriteAuth(l) \/ Confirm(l)
           \/ \E o \in Logouts : LoadAuth(o) \/ Revoke(o) \/ FindAuth(o) \/ UnlinkAuth(o)
           \/ \E c \in Commands : Dies(c)
           \/ Consent
           \/ UNCHANGED loginVars
  BY DEF Next, Login, Logout

-----------------------------------------------------------------------------
(* Types, and what has become of a device code *)

\* A code is spent once the API issued a session for it, and a login is past
\* the poll loop only with a full session.
CodeInv ==
    /\ \A l \in live \cup pending : code[l] = "spent"
    /\ \A l \in Logins : step[l] \in {"complete", "writing"} =>
           code[l] = "spent" /\ l \notin pending
    /\ auth \in Logins => code[auth] = "spent" /\ auth \notin pending

\* A login that is through with a code's life has not seen it confirmed.
TimeInv ==
    \A l \in Logins :
        /\ step[l] = "idle" => elapsed[l] = 0 /\ code[l] = "none"
        /\ step[l] = "looping" /\ elapsed[l] > ExpiresIn => code[l] = "open"
        /\ outcome[l] = "timed out" =>
               step[l] = "over" /\ elapsed[l] > ExpiresIn /\ code[l] = "open"

LoginInv == TypeOK /\ CodeInv /\ TimeInv

LEMMA InitLoginInv ==
    ASSUME Init
    PROVE  LoginInv
<1> USE LoginAssumption DEF Init
<1>0. 0 \in 0..(ExpiresIn + MaxInterval) /\ 1 \in 1..MaxInterval
  OBVIOUS
<1>1. TypeOK
  <2>1. /\ elapsed \in [Logins -> 0..(ExpiresIn + MaxInterval)]
        /\ interval \in [Logins -> 1..MaxInterval]
    BY <1>0
  <2> QED
    BY <2>1 DEF TypeOK, Codes, Steps, Outcomes
<1>2. CodeInv
  BY DEF CodeInv, Commands
<1>3. TimeInv
  BY DEF TimeInv, Commands
<1> QED
  BY <1>1, <1>2, <1>3 DEF LoginInv

LEMMA StartMishapsType ==
    ASSUME NEW c \in Commands
    PROVE  StartMishaps(c) \subseteq Mishaps
  BY DEF StartMishaps, Mishaps

LEMMA NextLoginInv ==
    ASSUME LoginInv, [Next]_loginVars
    PROVE  LoginInv'
<1> USE LoginAssumption DEF Goto, Ends
<1>0. TypeOK /\ CodeInv /\ TimeInv
  BY DEF LoginInv
<1>c. Logins \subseteq Commands /\ Logouts \subseteq Commands
  BY DEF Commands
<1>1. ASSUME NEW l \in Logins, StartDeviceFlow(l) PROVE LoginInv'
  <2>1. TypeOK'
    <3>1. mishaps' \subseteq Mishaps
      BY <1>0, <1>c, <1>1, StartMishapsType DEF StartDeviceFlow, TypeOK
    <3>2. code' \in [Logins -> Codes] /\ step' \in [Commands -> Steps]
            /\ outcome' \in [Commands -> Outcomes]
      BY <1>0, <1>c, <1>1 DEF StartDeviceFlow, TypeOK, Steps, Codes, Outcomes
    <3>3. UNCHANGED <<auth, opened, consented, live, pending, elapsed, interval, held>>
      BY <1>1 DEF StartDeviceFlow
    <3> QED
      BY <1>0, <3>1, <3>2, <3>3 DEF TypeOK
  <2>2. CodeInv'
    BY <1>0, <1>c, <1>1 DEF StartDeviceFlow, TypeOK, CodeInv, TimeInv, Active
  <2>3. TimeInv'
    BY <1>0, <1>c, <1>1 DEF StartDeviceFlow, TypeOK, TimeInv, Active
  <2> QED
    BY <2>1, <2>2, <2>3 DEF LoginInv
<1>2. ASSUME NEW l \in Logins, Sleep(l) PROVE LoginInv'
  <2>1. TypeOK'
    <3>1. CASE elapsed[l] <= ExpiresIn
      <4>1. elapsed[l] + interval[l] \in 0..(ExpiresIn + MaxInterval)
        BY <1>0, <3>1 DEF TypeOK
      <4>2. elapsed' \in [Logins -> 0..(ExpiresIn + MaxInterval)]
        BY <1>0, <1>2, <3>1, <4>1 DEF Sleep, TypeOK
      <4> QED
        BY <1>0, <1>c, <1>2, <3>1, <4>2 DEF Sleep, TypeOK, Steps
    <3>2. CASE ~(elapsed[l] <= ExpiresIn)
      BY <1>0, <1>c, <1>2, <3>2 DEF Sleep, TypeOK, Steps, Outcomes
    <3> QED
      BY <3>1, <3>2
  <2>2. CodeInv'
    BY <1>0, <1>c, <1>2 DEF Sleep, TypeOK, CodeInv, TimeInv, Active
  <2>3. TimeInv'
    <3>1. CASE elapsed[l] <= ExpiresIn
      BY <1>0, <1>c, <1>2, <3>1 DEF Sleep, TypeOK, TimeInv
    <3>2. CASE ~(elapsed[l] <= ExpiresIn)
      <4>1. elapsed[l] > ExpiresIn
        BY <1>0, <3>2 DEF TypeOK
      <4>2. code[l] = "open" /\ UNCHANGED <<elapsed, code>>
        BY <1>0, <1>2, <3>2, <4>1 DEF Sleep, TimeInv
      <4> QED
        BY <1>0, <1>c, <1>2, <3>2, <4>1, <4>2 DEF Sleep, TypeOK, TimeInv
    <3> QED
      BY <3>1, <3>2
  <2> QED
    BY <2>1, <2>2, <2>3 DEF LoginInv
<1>3. ASSUME NEW l \in Logins, Pending(l) PROVE LoginInv'
  <2>1. TypeOK'
    <3>1. interval' \in [Logins -> 1..MaxInterval]
      BY <1>0, <1>3 DEF Pending, TypeOK
    <3> QED
      BY <1>0, <1>c, <1>3, <3>1 DEF Pending, TypeOK, Steps
  <2>2. CodeInv'
    BY <1>0, <1>c, <1>3 DEF Pending, TypeOK, CodeInv, TimeInv, Active
  <2>3. TimeInv'
    BY <1>0, <1>c, <1>3 DEF Pending, TypeOK, TimeInv, Active
  <2> QED
    BY <2>1, <2>2, <2>3 DEF LoginInv
<1>4. ASSUME NEW l \in Logins, Complete(l) PROVE LoginInv'
  <2>1. TypeOK'
    BY <1>0, <1>c, <1>4 DEF Complete, TypeOK, CodeInv, Steps, Codes, Outcomes, Mishaps, Active
  <2>2. CodeInv'
    BY <1>0, <1>c, <1>4 DEF Complete, TypeOK, CodeInv, TimeInv, Active
  <2>3. TimeInv'
    BY <1>0, <1>c, <1>4 DEF Complete, TypeOK, TimeInv, Active
  <2> QED
    BY <2>1, <2>2, <2>3 DEF LoginInv
<1>5. ASSUME NEW l \in Logins, UnexpectedStatus(l) PROVE LoginInv'
  <2>1. TypeOK'
    BY <1>0, <1>c, <1>5 DEF UnexpectedStatus, TypeOK, CodeInv, Steps, Codes, Outcomes, Mishaps, Active
  <2>2. CodeInv'
    BY <1>0, <1>c, <1>5 DEF UnexpectedStatus, TypeOK, CodeInv, TimeInv, Active
  <2>3. TimeInv'
    BY <1>0, <1>c, <1>5 DEF UnexpectedStatus, TypeOK, TimeInv, Active
  <2> QED
    BY <2>1, <2>2, <2>3 DEF LoginInv
<1>6. ASSUME NEW l \in Logins, PollFails(l) PROVE LoginInv'
  <2>1. TypeOK'
    BY <1>0, <1>c, <1>6 DEF PollFails, TypeOK, CodeInv, Steps, Codes, Outcomes, Mishaps, Active
  <2>2. CodeInv'
    <3>1. step[l] = "polling" /\ step' = [step EXCEPT ![l] = "over"]
          /\ UNCHANGED <<auth, pending>>
      BY <1>6 DEF PollFails
    <3>2. CASE UNCHANGED <<code, live>>
      BY <1>0, <1>c, <3>1, <3>2 DEF TypeOK, CodeInv
    <3>3. CASE code' = [code EXCEPT ![l] = "spent"] /\ live' = live \cup {l}
      BY <1>0, <1>c, <3>1, <3>3 DEF TypeOK, CodeInv
    <3> QED
      BY <1>6, <3>2, <3>3 DEF PollFails
  <2>3. TimeInv'
    BY <1>0, <1>c, <1>6 DEF PollFails, TypeOK, TimeInv, Active
  <2> QED
    BY <2>1, <2>2, <2>3 DEF LoginInv
<1>7. ASSUME NEW l \in Logins, OpenAuth(l) PROVE LoginInv'
  <2>1. TypeOK'
    BY <1>0, <1>c, <1>7 DEF OpenAuth, TypeOK, CodeInv, Steps, Codes, Outcomes, Mishaps, Active
  <2>2. CodeInv'
    BY <1>0, <1>c, <1>7 DEF OpenAuth, TypeOK, CodeInv, TimeInv, Active
  <2>3. TimeInv'
    BY <1>0, <1>c, <1>7 DEF OpenAuth, TypeOK, TimeInv, Active
  <2> QED
    BY <2>1, <2>2, <2>3 DEF LoginInv
<1>8. ASSUME NEW l \in Logins, WriteAuth(l) PROVE LoginInv'
  <2>1. TypeOK'
    BY <1>0, <1>c, <1>8 DEF WriteAuth, TypeOK, CodeInv, Steps, Codes, Outcomes, Mishaps, Active
  <2>2. CodeInv'
    BY <1>0, <1>c, <1>8 DEF WriteAuth, TypeOK, CodeInv, TimeInv, Active
  <2>3. TimeInv'
    BY <1>0, <1>c, <1>8 DEF WriteAuth, TypeOK, TimeInv, Active
  <2> QED
    BY <2>1, <2>2, <2>3 DEF LoginInv
<1>9. ASSUME NEW l \in Logins, Confirm(l) PROVE LoginInv'
  <2>1. TypeOK'
    BY <1>0, <1>c, <1>9 DEF Confirm, TypeOK, CodeInv, Steps, Codes, Outcomes, Mishaps, Active
  <2>2. CodeInv'
    BY <1>0, <1>c, <1>9 DEF Confirm, TypeOK, CodeInv, TimeInv, Active
  <2>3. TimeInv'
    <3>1. /\ UNCHANGED <<step, elapsed, outcome>>
          /\ code' = [code EXCEPT ![l] = "confirmed"] /\ code[l] = "open"
          /\ ~(elapsed[l] > ExpiresIn)
      BY <1>0, <1>9 DEF Confirm, TypeOK
    <3> QED
      BY <1>0, <3>1 DEF TypeOK, TimeInv
  <2> QED
    BY <2>1, <2>2, <2>3 DEF LoginInv
<1>10. ASSUME NEW o \in Logouts, LoadAuth(o) PROVE LoginInv'
  <2>1. TypeOK'
    <3>1. mishaps' \subseteq Mishaps
      BY <1>0, <1>c, <1>10, StartMishapsType DEF LoadAuth, TypeOK
    <3>2. held' \in [Logouts -> Logins \cup {NoSession}] /\ step' \in [Commands -> Steps]
      BY <1>0, <1>c, <1>10 DEF LoadAuth, TypeOK, Steps
    <3> QED
      BY <1>0, <1>10, <3>1, <3>2 DEF LoadAuth, TypeOK
  <2>2. CodeInv'
    BY <1>0, <1>c, <1>10 DEF LoadAuth, TypeOK, CodeInv, TimeInv, Active
  <2>3. TimeInv'
    BY <1>0, <1>c, <1>10 DEF LoadAuth, TypeOK, TimeInv, Active
  <2> QED
    BY <2>1, <2>2, <2>3 DEF LoginInv
<1>11. ASSUME NEW o \in Logouts, Revoke(o) PROVE LoginInv'
  <2>1. TypeOK'
    BY <1>0, <1>c, <1>11 DEF Revoke, TypeOK, CodeInv, Steps, Codes, Outcomes, Mishaps, Active
  <2>2. CodeInv'
    BY <1>0, <1>c, <1>11 DEF Revoke, TypeOK, CodeInv, TimeInv, Active
  <2>3. TimeInv'
    BY <1>0, <1>c, <1>11 DEF Revoke, TypeOK, TimeInv, Active
  <2> QED
    BY <2>1, <2>2, <2>3 DEF LoginInv
<1>12. ASSUME NEW o \in Logouts, FindAuth(o) PROVE LoginInv'
  <2>1. TypeOK'
    BY <1>0, <1>c, <1>12 DEF FindAuth, TypeOK, CodeInv, Steps, Codes, Outcomes, Mishaps, Active
  <2>2. CodeInv'
    BY <1>0, <1>c, <1>12 DEF FindAuth, TypeOK, CodeInv, TimeInv, Active
  <2>3. TimeInv'
    BY <1>0, <1>c, <1>12 DEF FindAuth, TypeOK, TimeInv, Active
  <2> QED
    BY <2>1, <2>2, <2>3 DEF LoginInv
<1>13. ASSUME NEW o \in Logouts, UnlinkAuth(o) PROVE LoginInv'
  <2>1. TypeOK'
    BY <1>0, <1>c, <1>13 DEF UnlinkAuth, TypeOK, CodeInv, Steps, Codes, Outcomes, Mishaps, Active
  <2>2. CodeInv'
    BY <1>0, <1>c, <1>13 DEF UnlinkAuth, TypeOK, CodeInv, TimeInv, Active
  <2>3. TimeInv'
    BY <1>0, <1>c, <1>13 DEF UnlinkAuth, TypeOK, TimeInv, Active
  <2> QED
    BY <2>1, <2>2, <2>3 DEF LoginInv
<1>14. ASSUME NEW c \in Commands, Dies(c) PROVE LoginInv'
  <2>1. TypeOK'
    BY <1>0, <1>c, <1>14 DEF Dies, TypeOK, CodeInv, Steps, Codes, Outcomes, Mishaps, Active
  <2>2. CodeInv'
    BY <1>0, <1>c, <1>14 DEF Dies, TypeOK, CodeInv, TimeInv, Active
  <2>3. TimeInv'
    BY <1>0, <1>c, <1>14 DEF Dies, TypeOK, TimeInv, Active
  <2> QED
    BY <2>1, <2>2, <2>3 DEF LoginInv
<1>15. CASE Consent
  BY <1>0, <1>15 DEF Consent, LoginInv, TypeOK, CodeInv, TimeInv
<1>16. CASE UNCHANGED loginVars
  BY <1>0, <1>16 DEF loginVars, LoginInv, TypeOK, CodeInv, TimeInv
<1> QED
  BY <1>1, <1>2, <1>3, <1>4, <1>5, <1>6, <1>7, <1>8, <1>9, <1>10, <1>11, <1>12, <1>13, <1>14, <1>15, <1>16, NextCases

\* Every variable of the sign-in keeps its type (cli/_commands/auth.py).
THEOREM TypeCorrect ==
    Spec => []TypeOK
<1>1. Init => LoginInv
  BY InitLoginInv
<1>2. LoginInv /\ [Next]_loginVars => LoginInv'
  BY NextLoginInv
<1>3. LoginInv => TypeOK
  BY DEF LoginInv
<1> QED
  BY <1>1, <1>2, <1>3, PTL DEF Spec

\* However many commands interleave, crash or are repeated: auth.json never
\* holds a pending-consent session (cli/_commands/auth.py).
THEOREM OnlyFullSessions ==
    Spec => []OnlyFullSessionsStored
<1>1. Init => LoginInv
  BY InitLoginInv
<1>2. LoginInv /\ [Next]_loginVars => LoginInv'
  BY NextLoginInv
<1>3. LoginInv => OnlyFullSessionsStored
  BY DEF LoginInv, CodeInv, OnlyFullSessionsStored
<1> QED
  BY <1>1, <1>2, <1>3, PTL DEF Spec

\* For every code life and whatever slow_down adds: a login that timed out
\* left a code nobody had confirmed (cli/_commands/auth.py).
THEOREM TimedOut ==
    Spec => []TimedOutMeansUnconfirmed
<1>1. Init => LoginInv
  BY InitLoginInv
<1>2. LoginInv /\ [Next]_loginVars => LoginInv'
  BY NextLoginInv
<1>3. LoginInv => TimedOutMeansUnconfirmed
  BY DEF LoginInv, TimeInv, TimedOutMeansUnconfirmed
<1> QED
  BY <1>1, <1>2, <1>3, PTL DEF Spec
-----------------------------------------------------------------------------
(* Sessions in reach *)

\* Without mishaps commands run one at a time; a login starts signed out and
\* what is live is its session or the file's, and a logout past its request
\* leaves nothing live.
ReachInv ==
    mishaps = {} =>
        /\ \A c, d \in Commands : Active(c) /\ Active(d) => c = d
        /\ \A l \in Logins :
            /\ step[l] \in {"looping", "polling", "complete"} => auth = NoSession
            /\ step[l] = "writing" => auth = Unreadable /\ l \in opened
        /\ \A o \in Logouts :
            /\ step[o] = "revoking" => held[o] = auth
            /\ step[o] \in {"clearing", "unlinking"} => live = {}
        /\ \A l \in live : auth = l \/ step[l] \in {"complete", "writing"}

LoginSteps == {"looping", "polling", "complete", "writing"}
LogoutSteps == {"revoking", "clearing", "unlinking"}

\* Who is in which step: the two commands have no step in common.
StepInv ==
    /\ \A l \in Logins : step[l] \in LoginSteps \cup {"idle", "over"}
    /\ \A o \in Logouts : step[o] \in LogoutSteps \cup {"idle", "over"}

LEMMA NextStepInv ==
    ASSUME TypeOK, StepInv, [Next]_loginVars
    PROVE  StepInv'
<1> USE LoginAssumption DEF Goto, Ends
<1>c. Logins \subseteq Commands /\ Logouts \subseteq Commands
  BY DEF Commands
<1>1. ASSUME NEW c \in Commands, NEW s, step' = [step EXCEPT ![c] = s],
             \/ s = "over"
             \/ c \in Logins /\ s \in LoginSteps
             \/ c \in Logouts /\ s \in LogoutSteps
      PROVE  StepInv'
  BY <1>1, <1>c DEF StepInv, TypeOK
<1>2. ASSUME NEW l \in Logins,
             \/ StartDeviceFlow(l) \/ Sleep(l) \/ Pending(l) \/ Complete(l)
             \/ UnexpectedStatus(l) \/ PollFails(l) \/ OpenAuth(l) \/ WriteAuth(l)
      PROVE  StepInv'
  <2>1. \E s \in LoginSteps \cup {"over"} : step' = [step EXCEPT ![l] = s]
    BY <1>2 DEF StartDeviceFlow, Sleep, Pending, Complete, UnexpectedStatus,
       PollFails, OpenAuth, WriteAuth, LoginSteps
  <2> QED
    BY <1>1, <1>c, <2>1
<1>3. ASSUME NEW o \in Logouts, LoadAuth(o) \/ Revoke(o) \/ FindAuth(o) \/ UnlinkAuth(o)
      PROVE  StepInv'
  <2>1. \E s \in LogoutSteps \cup {"over"} : step' = [step EXCEPT ![o] = s]
    BY <1>3 DEF LoadAuth, Revoke, FindAuth, UnlinkAuth, LogoutSteps
  <2> QED
    BY <1>1, <1>c, <2>1
<1>4. ASSUME NEW c \in Commands, Dies(c) PROVE StepInv'
  BY <1>1, <1>4 DEF Dies
<1>5. ASSUME UNCHANGED step PROVE StepInv'
  BY <1>5 DEF StepInv
<1>6. ASSUME NEW l \in Logins, Confirm(l) PROVE StepInv'
  BY <1>5, <1>6 DEF Confirm
<1>7. CASE Consent \/ UNCHANGED loginVars
  BY <1>5, <1>7 DEF Consent, loginVars
<1> QED
  BY <1>2, <1>3, <1>4, <1>6, <1>7, NextCases

LEMMA NextReachInv ==
    ASSUME LoginInv, StepInv, ReachInv, [Next]_loginVars
    PROVE  ReachInv'
<1> SUFFICES ASSUME mishaps' = {} PROVE ReachInv'
  BY DEF ReachInv
<1> USE LoginAssumption DEF Goto, Ends
<1>c. Logins \subseteq Commands /\ Logouts \subseteq Commands /\ Commands = Logins \cup Logouts
  BY DEF Commands
<1>t. TypeOK /\ StepInv
  BY DEF LoginInv
<1>0. mishaps = {} /\ ReachInv
  <2>1. mishaps \subseteq mishaps'
    BY NextCases DEF StartDeviceFlow, Sleep, Pending, Complete, UnexpectedStatus,
       PollFails, OpenAuth, WriteAuth, Confirm, LoadAuth, Revoke, FindAuth, UnlinkAuth,
       Dies, Consent, loginVars
  <2> QED
    BY <2>1
\* A command that runs runs alone.
<1>a. ASSUME NEW c \in Commands, Active(c)
      PROVE  /\ \A d \in Commands : d # c => ~Active(d)
             /\ \A l \in Logins : l # c => step[l] \in {"idle", "over"}
             /\ \A o \in Logouts : o # c => step[o] \in {"idle", "over"}
             /\ \A l \in live : l # c => auth = l
  <2>1. \A d \in Commands : d # c => ~Active(d)
    BY <1>0, <1>a DEF ReachInv
  <2>2. \A l \in live : l \in Commands
    BY <1>c, <1>t DEF TypeOK
  <2> QED
    BY <1>0, <1>c, <2>1, <2>2 DEF Active, ReachInv
<1>1. ASSUME NEW l \in Logins, StartDeviceFlow(l) PROVE ReachInv'
  <2>1. /\ \A d \in Commands : ~Active(d)
        /\ auth = NoSession /\ live = {} /\ UNCHANGED <<auth, live, held, opened>>
        /\ \E s \in {"looping", "over"} : step' = [step EXCEPT ![l] = s]
    <3>1. StartMishaps(l) = {}
      BY <1>1 DEF StartDeviceFlow
    <3>2. (\A d \in Commands : ~Active(d)) /\ auth = NoSession
      BY <3>1 DEF StartMishaps
    <3>3. live = {}
      BY <1>0, <1>c, <1>t, <3>2 DEF ReachInv, TypeOK, Active
    <3> QED
      BY <1>1, <3>2, <3>3 DEF StartDeviceFlow
  <2>2. \A d \in Commands : d # l => step'[d] = step[d] /\ step[d] \in {"idle", "over"}
    BY <2>1 DEF TypeOK, Active
  <2>3. step'[l] \in {"looping", "over"}
    BY <1>c, <1>t, <2>1 DEF TypeOK
  <2> QED
    BY <1>c, <2>1, <2>2, <2>3 DEF ReachInv, Active
\* The steps of the one command that runs: what they make of the file and of
\* the sessions.
<1>2. ASSUME NEW c \in Commands, Active(c), NEW s, step' = [step EXCEPT ![c] = s],
             \A l \in live' : auth' = l \/ (l = c /\ s \in {"complete", "writing"}),
             c \in Logins /\ s \in {"looping", "polling", "complete"} => auth' = NoSession,
             c \in Logins /\ s = "writing" => auth' = Unreadable /\ c \in opened',
             c \in Logouts /\ s = "revoking" => held'[c] = auth',
             c \in Logouts /\ s \in {"clearing", "unlinking"} => live' = {}
      PROVE  ReachInv'
  <2>1. \A d \in Commands : d # c => step'[d] = step[d] /\ step[d] \in {"idle", "over"}
    BY <1>a, <1>2, <1>t DEF TypeOK, Active
  <2>2. step'[c] = s
    BY <1>2, <1>t DEF TypeOK
  <2>3. \A d, e \in Commands : Active(d)' /\ Active(e)' => d = e
    BY <2>1 DEF Active
  <2>4. \A l \in Logins :
          /\ step'[l] \in {"looping", "polling", "complete"} => auth' = NoSession
          /\ step'[l] = "writing" => auth' = Unreadable /\ l \in opened'
    BY <1>2, <1>c, <2>1, <2>2
  <2>5. \A o \in Logouts :
          /\ step'[o] = "revoking" => held'[o] = auth'
          /\ step'[o] \in {"clearing", "unlinking"} => live' = {}
    BY <1>2, <1>c, <2>1, <2>2
  <2>6. \A l \in live' : auth' = l \/ step'[l] \in {"complete", "writing"}
    BY <1>2, <2>2
  <2> QED
    BY <2>3, <2>4, <2>5, <2>6 DEF ReachInv
<1>3. ASSUME NEW l \in Logins, Sleep(l) \/ Pending(l) \/ UnexpectedStatus(l) \/ PollFails(l)
      PROVE  ReachInv'
  <2>1. PICK s \in {"looping", "polling", "over"} : step' = [step EXCEPT ![l] = s]
    BY <1>3 DEF Sleep, Pending, UnexpectedStatus, PollFails
  <2>2. Active(l) /\ step[l] \in {"looping", "polling"}
    BY <1>3 DEF Sleep, Pending, UnexpectedStatus, PollFails, Active
  <2>3. UNCHANGED <<auth, live>>
    <3>1. CASE Sleep(l) \/ Pending(l) \/ UnexpectedStatus(l)
      BY <3>1 DEF Sleep, Pending, UnexpectedStatus
    <3>2. CASE PollFails(l)
      BY <3>2 DEF PollFails
    <3> QED
      BY <1>3, <3>1, <3>2
  <2>4. auth = NoSession /\ \A k \in live : auth = k
    BY <1>0, <1>a, <1>c, <2>2 DEF ReachInv
  <2>5. auth' = NoSession /\ \A k \in live' : auth' = k
    BY <2>3, <2>4
  <2>6. \A k \in live' : auth' = k \/ (k = l /\ s \in {"complete", "writing"})
    BY <2>5
  <2>7. /\ l \in Logins /\ s \in {"looping", "polling", "complete"} => auth' = NoSession
        /\ l \in Logins /\ s = "writing" => auth' = Unreadable /\ l \in opened'
        /\ l \in Logouts /\ s = "revoking" => held'[l] = auth'
        /\ l \in Logouts /\ s \in {"clearing", "unlinking"} => live' = {}
    BY <2>1, <2>5
  <2> QED
    BY <1>2, <1>c, <2>1, <2>2, <2>6, <2>7
<1>4. ASSUME NEW l \in Logins, Complete(l) PROVE ReachInv'
  <2>1. /\ Active(l) /\ auth = NoSession /\ UNCHANGED auth /\ live' = live \cup {l}
        /\ step' = [step EXCEPT ![l] = "complete"]
    BY <1>0, <1>4 DEF Complete, Active, ReachInv
  <2>2. \A k \in live' : auth' = k \/ k = l
    BY <1>a, <1>c, <2>1
  <2> QED
    BY <1>2, <1>c, <2>1, <2>2
<1>5. ASSUME NEW l \in Logins, OpenAuth(l) PROVE ReachInv'
  <2>1. /\ Active(l) /\ auth = NoSession /\ auth' = Unreadable /\ l \in opened' /\ UNCHANGED live
        /\ step' = [step EXCEPT ![l] = "writing"]
    BY <1>0, <1>5 DEF OpenAuth, Active, ReachInv
  <2>2. \A k \in live' : k = l
    BY <1>a, <1>c, <1>t, <2>1 DEF TypeOK
  <2> QED
    BY <1>2, <1>c, <2>1, <2>2
<1>6. ASSUME NEW l \in Logins, WriteAuth(l) PROVE ReachInv'
  <2>1. /\ Active(l) /\ auth = Unreadable /\ l \in opened /\ UNCHANGED live
        /\ step' = [step EXCEPT ![l] = "over"]
    BY <1>0, <1>6 DEF WriteAuth, Active, ReachInv
  <2>2. auth' = l
    BY <1>6, <2>1 DEF WriteAuth
  <2>3. \A k \in live' : k = l
    BY <1>a, <1>c, <1>t, <2>1 DEF TypeOK
  <2> QED
    BY <1>2, <1>c, <2>1, <2>2, <2>3
<1>7. ASSUME NEW o \in Logouts, LoadAuth(o) PROVE ReachInv'
  <2>1. /\ \A d \in Commands : ~Active(d)
        /\ UNCHANGED <<auth, live, opened>>
    BY <1>7 DEF LoadAuth, StartMishaps
  <2>2. \A l \in live : auth = l /\ l \in Logins
    BY <1>0, <1>c, <1>t, <2>1 DEF ReachInv, TypeOK, Active
  <2>3. \A d \in Commands : d # o => step'[d] = step[d] /\ step[d] \in {"idle", "over"}
    BY <1>7, <1>t, <2>1 DEF LoadAuth, TypeOK, Active
  <2>4. \/ step'[o] = "revoking" /\ held'[o] = auth
        \/ step'[o] = "clearing" /\ live = {}
    BY <1>7, <1>c, <1>t, <2>2 DEF LoadAuth, TypeOK
  <2>5. o \notin Logins
    OBVIOUS
  <2> QED
    BY <1>c, <2>1, <2>2, <2>3, <2>4, <2>5 DEF ReachInv, Active
<1>8. ASSUME NEW o \in Logouts, Revoke(o) PROVE ReachInv'
  <2>1. /\ Active(o) /\ held[o] = auth /\ live' = live \ {held[o]} /\ UNCHANGED auth
        /\ step' = [step EXCEPT ![o] = "clearing"]
    BY <1>0, <1>8 DEF Revoke, Active, ReachInv
  <2>2. live' = {}
    <3>1. \A k \in live : k # o
      BY <1>t DEF TypeOK
    <3> QED
      BY <1>a, <1>c, <2>1, <3>1
  <2> QED
    BY <1>2, <1>c, <2>1, <2>2
<1>9. ASSUME NEW o \in Logouts, FindAuth(o) \/ UnlinkAuth(o) PROVE ReachInv'
  <2>1. /\ Active(o) /\ live = {} /\ UNCHANGED live
        /\ \E s \in {"unlinking", "over"} : step' = [step EXCEPT ![o] = s]
    BY <1>0, <1>9 DEF FindAuth, UnlinkAuth, Active, ReachInv
  <2>2. o \notin Logins
    OBVIOUS
  <2> QED
    BY <1>2, <1>c, <2>1, <2>2
<1>10. ASSUME NEW c \in Commands, Dies(c) PROVE FALSE
  BY <1>10 DEF Dies
<1>11. ASSUME NEW l \in Logins, Confirm(l) PROVE ReachInv'
  BY <1>0, <1>11 DEF Confirm, ReachInv, Active
<1>12. CASE Consent \/ UNCHANGED loginVars
  BY <1>0, <1>12 DEF Consent, loginVars, ReachInv, Active
<1> QED
  BY <1>1, <1>3, <1>4, <1>5, <1>6, <1>7, <1>8, <1>9, <1>10, <1>11, <1>12, NextCases

\* For every number of logins and logouts: unless a mishap names why not, a
\* session the API accepts is in auth.json or on its way there, so that the
\* next sign-out revokes it (cli/_commands/auth.py).
THEOREM InReach ==
    Spec => []SessionsInReach
<1>1. Init => LoginInv /\ StepInv /\ ReachInv
  <2> SUFFICES ASSUME Init PROVE StepInv /\ ReachInv
    BY InitLoginInv
  <2>1. \A c \in Commands : step[c] = "idle"
    BY DEF Init
  <2> QED
    BY <2>1 DEF Init, StepInv, ReachInv, Active, Commands
<1>2. LoginInv /\ StepInv /\ ReachInv /\ [Next]_loginVars => LoginInv' /\ StepInv' /\ ReachInv'
  BY NextLoginInv, NextStepInv, NextReachInv DEF LoginInv
<1>3. ReachInv => SessionsInReach
  BY DEF ReachInv, SessionsInReach
<1> QED
  BY <1>1, <1>2, <1>3, PTL DEF Spec

-----------------------------------------------------------------------------
(***************************************************************************)
(* The loop winds down                                                     *)
(*                                                                         *)
(* What LoginEnds rests on, short of fairness: a login that runs has a     *)
(* step of its own to take, each one leaves it fewer, and what others do   *)
(* meanwhile leaves it no more.                                            *)
(***************************************************************************)

\* The rounds a login has left, two steps each, and the way out of the loop.
StepsLeft(l) ==
    LET rounds == 2 * (ExpiresIn + MaxInterval - elapsed[l])
    IN  CASE step[l] = "looping"  -> rounds + 4
          [] step[l] = "polling"  -> rounds + 5
          [] step[l] = "complete" -> 2
          [] step[l] = "writing"  -> 1
          [] OTHER -> 0

\* A running login is in one of its four steps, none of which waits for
\* anything, and is a known number of them away from its end.
LoginGoesOn ==
    \A l \in Logins : Active(l) =>
        /\ step[l] \in LoginSteps
        /\ StepsLeft(l) \in 1 .. 2 * (ExpiresIn + MaxInterval) + 5

\* Every step of a running login brings it closer to its end, however often
\* the API says pending or slow_down, and no other command takes it away.
LoginsWindDown ==
    [][\A l \in Logins : Active(l) =>
          \/ step'[l] = step[l] /\ elapsed'[l] = elapsed[l]
          \/ StepsLeft(l)' < StepsLeft(l)]_loginVars

LEMMA StepsAre ==
    ASSUME TypeOK, NEW l \in Logins
    PROVE  /\ elapsed[l] \in Nat /\ ExpiresIn + MaxInterval - elapsed[l] \in Nat
           /\ StepsLeft(l) \in Nat
           /\ StepsLeft(l) <= 2 * (ExpiresIn + MaxInterval) + 5
           /\ step[l] \in LoginSteps => StepsLeft(l) >= 1
           /\ step[l] \in {"looping", "polling"} => StepsLeft(l) >= 4
<1>1. /\ ExpiresIn \in Nat /\ MaxInterval \in Nat
      /\ elapsed[l] \in 0 .. (ExpiresIn + MaxInterval)
  BY LoginAssumption DEF TypeOK
<1> QED
  BY <1>1 DEF StepsLeft, LoginSteps

\* Unless it leaves login l alone, a step of [Next] moves it on.
LEMMA WindStep ==
    ASSUME TypeOK, TypeOK', StepInv, [Next]_loginVars, NEW l \in Logins, Active(l)
    PROVE  \/ step'[l] = step[l] /\ elapsed'[l] = elapsed[l]
           \/ StepsLeft(l)' < StepsLeft(l)
<1> DEFINE Still == step'[l] = step[l] /\ elapsed'[l] = elapsed[l]
           Closer == StepsLeft(l)' < StepsLeft(l)
<1>c. l \in Commands /\ Logins \subseteq Commands /\ Logouts \subseteq Commands
  BY DEF Commands
<1>o. \A o \in Logouts : o # l
  BY LoginAssumption
<1>s. step[l] \in LoginSteps
  BY DEF StepInv, Active
<1>n. StepsLeft(l) \in Nat /\ StepsLeft(l) >= 1
  BY <1>s, StepsAre
<1>e. step'[l] = "over" => Closer
  BY <1>n DEF StepsLeft
<1>1. ASSUME NEW c \in Commands, NEW s, c # l, step' = [step EXCEPT ![c] = s],
             UNCHANGED elapsed
      PROVE  Still
  BY <1>1, <1>c DEF TypeOK
<1>2. ASSUME NEW c \in Commands, c # l, c \in Logins, Sleep(c) PROVE Still
  BY <1>2, <1>c DEF Sleep, Goto, Ends, TypeOK
<1>3. ASSUME NEW c \in Logins, c # l,
             \/ StartDeviceFlow(c) \/ Pending(c) \/ Complete(c) \/ UnexpectedStatus(c)
             \/ PollFails(c) \/ OpenAuth(c) \/ WriteAuth(c)
      PROVE  Still
  <2>1. (\E s : step' = [step EXCEPT ![c] = s]) /\ UNCHANGED elapsed
    BY <1>3 DEF StartDeviceFlow, Pending, Complete, UnexpectedStatus, PollFails,
       OpenAuth, WriteAuth, Goto, Ends
  <2> QED
    BY <1>1, <1>3, <1>c, <2>1
<1>4. ASSUME NEW o \in Logouts, LoadAuth(o) \/ Revoke(o) \/ FindAuth(o) \/ UnlinkAuth(o)
      PROVE  Still
  <2>1. (\E s : step' = [step EXCEPT ![o] = s]) /\ UNCHANGED elapsed
    BY <1>4 DEF LoadAuth, Revoke, FindAuth, UnlinkAuth, Goto, Ends
  <2> QED
    BY <1>1, <1>c, <1>o, <2>1
<1>5. ASSUME NEW c \in Commands, Dies(c) PROVE Still \/ Closer
  <2>1. step' = [step EXCEPT ![c] = "over"] /\ UNCHANGED elapsed
    BY <1>5 DEF Dies, Ends, Goto
  <2>2. CASE c = l
    <3>1. step'[l] = "over"
      BY <1>c, <2>1, <2>2 DEF TypeOK
    <3> QED
      BY <1>e, <3>1
  <2> QED
    BY <1>1, <2>1, <2>2
<1>6. CASE Sleep(l)
  <2>1. CASE elapsed[l] <= ExpiresIn
    <3>1. /\ step[l] = "looping" /\ step'[l] = "polling"
          /\ elapsed'[l] = elapsed[l] + interval[l]
      BY <1>6, <1>c, <2>1 DEF Sleep, Goto, TypeOK
    <3>2. interval[l] \in Nat /\ interval[l] >= 1 /\ elapsed[l] \in Nat
      BY LoginAssumption DEF TypeOK
    <3>3. /\ StepsLeft(l) = 2 * (ExpiresIn + MaxInterval - elapsed[l]) + 4
          /\ StepsLeft(l)' = 2 * (ExpiresIn + MaxInterval - (elapsed[l] + interval[l])) + 5
      BY <3>1 DEF StepsLeft
    <3> QED
      BY <3>2, <3>3, LoginAssumption
  <2>2. CASE ~(elapsed[l] <= ExpiresIn)
    <3>1. step'[l] = "over"
      BY <1>6, <1>c, <2>2 DEF Sleep, Ends, Goto, TypeOK
    <3> QED
      BY <1>e, <3>1
  <2> QED
    BY <2>1, <2>2
<1>7. CASE Pending(l)
  <2>1. step[l] = "polling" /\ step'[l] = "looping" /\ elapsed'[l] = elapsed[l]
    BY <1>7, <1>c DEF Pending, Goto, TypeOK
  <2>2. /\ StepsLeft(l) = 2 * (ExpiresIn + MaxInterval - elapsed[l]) + 5
        /\ StepsLeft(l)' = 2 * (ExpiresIn + MaxInterval - elapsed[l]) + 4
    BY <2>1 DEF StepsLeft
  <2> QED
    BY <2>2, StepsAre
<1>8. CASE Complete(l)
  <2>1. step[l] = "polling" /\ step'[l] = "complete"
    BY <1>8, <1>c DEF Complete, Goto, TypeOK
  <2>2. StepsLeft(l)' = 2
    BY <2>1 DEF StepsLeft
  <2> QED
    BY <2>1, <2>2, StepsAre
<1>9. CASE UnexpectedStatus(l) \/ PollFails(l) \/ WriteAuth(l)
  <2>1. step'[l] = "over"
    BY <1>9, <1>c DEF UnexpectedStatus, PollFails, WriteAuth, Ends, Goto, TypeOK
  <2> QED
    BY <1>e, <2>1
<1>10. CASE OpenAuth(l)
  <2>1. step[l] = "complete" /\ step'[l] = "writing"
    BY <1>10, <1>c DEF OpenAuth, Goto, TypeOK
  <2>2. StepsLeft(l) = 2 /\ StepsLeft(l)' = 1
    BY <2>1 DEF StepsLeft
  <2> QED
    BY <2>2
<1>11. ~StartDeviceFlow(l)
  BY DEF StartDeviceFlow, Active
<1>12. ASSUME NEW c \in Logins, Confirm(c) PROVE Still
  BY <1>12 DEF Confirm
<1>13. CASE Consent \/ UNCHANGED loginVars
  BY <1>13 DEF Consent, loginVars
<1> HIDE DEF Still, Closer
<1> QED
  BY <1>c, <1>2, <1>3, <1>4, <1>5, <1>6, <1>7, <1>8, <1>9, <1>10, <1>11, <1>12, <1>13,
     NextCases DEF Still, Closer

LEMMA StepsHold == Spec => [](TypeOK /\ StepInv)
<1>1. Init => StepInv
  <2> SUFFICES ASSUME Init PROVE StepInv
    OBVIOUS
  <2>1. \A c \in Commands : step[c] = "idle"
    BY DEF Init
  <2> QED
    BY <2>1 DEF StepInv, Commands
<1>2. TypeOK /\ StepInv /\ [Next]_loginVars => StepInv'
  BY NextStepInv
<1> QED
  BY <1>1, <1>2, TypeCorrect, PTL DEF Spec

\* For every number of logins and every life of a code: a running login always
\* has a step to take, and no more than two a round of them left
\* (cli/_commands/auth.py _await_device_confirmation).
THEOREM LoginsGoOn == Spec => []LoginGoesOn
<1>1. TypeOK /\ StepInv => LoginGoesOn
  <2> SUFFICES ASSUME TypeOK, StepInv, NEW l \in Logins, Active(l)
               PROVE  /\ step[l] \in LoginSteps
                      /\ StepsLeft(l) \in 1 .. 2 * (ExpiresIn + MaxInterval) + 5
    BY DEF LoginGoesOn
  <2>1. step[l] \in LoginSteps
    BY DEF StepInv, Active
  <2>2. /\ StepsLeft(l) \in Nat /\ StepsLeft(l) >= 1
        /\ StepsLeft(l) <= 2 * (ExpiresIn + MaxInterval) + 5
    BY <2>1, StepsAre
  <2>3. 2 * (ExpiresIn + MaxInterval) + 5 \in Nat
    BY LoginAssumption
  <2> QED
    BY <2>1, <2>2, <2>3
<1> QED
  BY <1>1, StepsHold, PTL

\* For every number of logins and logouts, every life of a code and whatever
\* slow_down adds: a login only gets closer to its end
\* (cli/_commands/auth.py _await_device_confirmation).
THEOREM LoginsEndInSight == Spec => LoginsWindDown
<1>1. TypeOK /\ TypeOK' /\ StepInv /\ [Next]_loginVars =>
        \A l \in Logins : Active(l) =>
          \/ step'[l] = step[l] /\ elapsed'[l] = elapsed[l]
          \/ StepsLeft(l)' < StepsLeft(l)
  BY WindStep
<1> QED
  BY <1>1, StepsHold, PTL DEF Spec, LoginsWindDown
=============================================================================
