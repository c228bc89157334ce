---------------------------- MODULE AccountProofs ----------------------------
(***************************************************************************)
(* Account for every set of requests, every token lifetime and every       *)
(* number of published terms: typing, the lasting of sign-outs, the        *)
(* absence of any trace before acceptance, consent before storage, and     *)
(* an erasure that signs the learner out everywhere.                       *)
(***************************************************************************)
EXTENDS Account, TLAPS

\* Every step of a handler ends in one of these; the lemmas below go through
\* them one by one.
Step(r) ==
    \/ \E op \in Ops, t \in Tokens : RequireAuth(r, op, t)
    \/ SignIn(r)
    \/ RequireKnownLearner(r)
    \/ Continue(r)
    \/ Fail(r)

LEMMA NextCases ==
    ASSUME [Next]_vars
    PROVE  \/ Tick \/ PublishTerms \/ UNCHANGED vars
           \/ \E r \in Requests : Step(r)
  BY DEF Next, Arrive, Step

LEMMA NewSessionType ==
    ASSUME TypeOK, NEW ttl \in Nat, NEW pending \in BOOLEAN
    PROVE  NewSession(ttl, pending) \in Session
<1>1. now \in Nat
  BY AccountAssumption DEF TypeOK
<1> QED
  BY <1>1 DEF NewSession, Session

\* Handler r is now here; the others are where they were.
Moved(r, op, pc, t) ==
    /\ req'[r].op = op /\ req'[r].pc = pc /\ req'[r].token = t
    /\ \A q \in Requests : q # r => req'[q] = req[q]

LEMMA GotoStep ==
    ASSUME TypeOK, NEW r \in Requests, NEW pc, Goto(r, pc)
    PROVE  Moved(r, req[r].op, pc, req[r].token)
  BY DEF Goto, Moved, TypeOK, Handler

LEMMA EnterStep ==
    ASSUME TypeOK, NEW r \in Requests, NEW op, NEW t, NEW pc, Enter(r, op, t, pc)
    PROVE  Moved(r, op, pc, t)
  BY DEF Enter, Moved, TypeOK

LEMMA GotoType ==
    ASSUME TypeOK, NEW r \in Requests, NEW pc \in Steps, Goto(r, pc)
    PROVE  req' \in [Requests -> Handler]
<1>1. req[r] \in Handler
  BY DEF TypeOK
<1>2. [req[r] EXCEPT !.pc = pc] \in Handler
  BY <1>1 DEF Handler
<1>3. req' = [req EXCEPT ![r] = [req[r] EXCEPT !.pc = pc]]
  BY DEF Goto
<1> QED
  BY <1>2, <1>3 DEF TypeOK

LEMMA EnterType ==
    ASSUME TypeOK, NEW r \in Requests, NEW op \in AllOps, NEW t \in Tokens,
           NEW pc \in Steps, Enter(r, op, t, pc)
    PROVE  req' \in [Requests -> Handler]
<1>1. [op |-> op, pc |-> pc, token |-> t] \in Handler
  BY DEF Handler
<1> QED
  BY <1>1 DEF Enter, TypeOK

LEMMA FirstStepType ==
    ASSUME NEW op \in AllOps \ {"signin", "approve"}, NEW pending \in BOOLEAN
    PROVE  FirstStep(op, pending) \in
             {"record_consent", "revoke", "done", "refresh", "consent", "erase"}
  BY DEF FirstStep, AllOps

-----------------------------------------------------------------------------
(* Type correctness *)

LEMMA InitType == Init => TypeOK
<1> SUFFICES ASSUME Init PROVE TypeOK
  OBVIOUS
<1>1. now \in 0 .. MaxNow /\ terms \in 1 .. MaxTerms /\ consent \in 0 .. MaxTerms
  BY AccountAssumption DEF Init
<1>2. learner \in [exists : BOOLEAN, approved : BOOLEAN]
  BY DEF Init, NoLearner
<1>3. NewSession(DefaultTTL, FALSE) \in Session /\ NoSession \in Session
  BY AccountAssumption DEF Init, NewSession, NoSession, Session
<1>4. sessions \in [Tokens -> Session]
  BY <1>3 DEF Init
<1>5. IdleHandler \in Handler
  BY DEF IdleHandler, Handler, Steps, Tokens
<1>6. req \in [Requests -> Handler]
  BY <1>5 DEF Init
<1> QED
  BY <1>1, <1>2, <1>4, <1>6 DEF Init, TypeOK

LEMMA StepType ==
    ASSUME TypeOK, NEW r \in Requests, Step(r)
    PROVE  TypeOK'
<1>a. now \in Nat /\ DefaultTTL \in Nat /\ PendingTTL \in Nat /\ r \in Tokens
  BY AccountAssumption DEF TypeOK, Tokens
<1>b. \A pc \in Steps : Goto(r, pc) => req' \in [Requests -> Handler]
  BY GotoType
<1>c. now + 2 * DefaultTTL \in Nat
  BY <1>a
<1>d. \A ttl \in {DefaultTTL, PendingTTL}, pending \in BOOLEAN :
        [sessions EXCEPT ![r] = NewSession(ttl, pending)] \in [Tokens -> Session]
  BY <1>a, NewSessionType DEF TypeOK
<1>e. Arrival => disturbed' \in BOOLEAN
  BY DEF Arrival, TypeOK, Erasing
<1>1. ASSUME NEW op \in Ops, NEW t \in Tokens, RequireAuth(r, op, t) PROVE TypeOK'
  <2>1. op \in AllOps \ {"signin", "approve"} /\ sessions[t].pending \in BOOLEAN
    BY <1>1, AccountAssumption DEF RequireAuth, TypeOK, Session
  <2>2. FirstStep(op, sessions[t].pending) \in Steps /\ "done" \in Steps
    BY <2>1, FirstStepType DEF Steps
  <2>3. req' \in [Requests -> Handler]
    BY <1>1, <2>1, <2>2, EnterType DEF RequireAuth
  <2> QED
    BY <1>1, <1>e, <2>3 DEF RequireAuth, TypeOK, stored, kv
<1>2. CASE SignIn(r)
  <2>1. FirstToken \in Tokens /\ "signin" \in AllOps /\ {"upsert", "done"} \subseteq Steps
    BY DEF Tokens, AllOps, Steps
  <2>2. req' \in [Requests -> Handler]
    BY <1>2, <2>1, EnterType DEF SignIn
  <2>3. sessions' \in [Tokens -> Session]
    BY <1>2, <1>d DEF SignIn, TypeOK
  <2> QED
    BY <1>2, <1>e, <2>2, <2>3 DEF SignIn, TypeOK, stored, kv
<1>3. CASE RequireKnownLearner(r)
  <2>1. FirstToken \in Tokens /\ "approve" \in AllOps /\ {"consent", "done"} \subseteq Steps
    BY DEF Tokens, AllOps, Steps
  <2>2. req' \in [Requests -> Handler]
    BY <1>3, <2>1, EnterType DEF RequireKnownLearner
  <2> QED
    BY <1>3, <1>e, <2>2 DEF RequireKnownLearner, TypeOK, stored, kv
<1>4. CASE RequireConsented(r) \/ RequireCurrentConsent(r)
  BY <1>4, <1>b DEF RequireConsented, RequireCurrentConsent, Steps, TypeOK, stored, kv
<1>5. CASE RecordConsent(r)
  <2>1. terms \in 0 .. MaxTerms
    BY AccountAssumption DEF TypeOK
  <2> QED
    BY <1>5, <1>b, <2>1 DEF RecordConsent, Steps, TypeOK, kv
<1>6. CASE UpsertLearner(r)
  BY <1>6, <1>b DEF UpsertLearner, Steps, TypeOK, kv
<1>7. CASE IssueSession(r)
  BY <1>7, <1>b, <1>d DEF IssueSession, Steps, TypeOK, stored, kv
<1>8. CASE RevokeSession(r)
  <2>1. req[r].token \in Tokens
    BY DEF TypeOK, Handler
  <2>2. dead' \subseteq Tokens
    BY <1>8, <2>1 DEF RevokeSession, TypeOK
  <2>3. tombstone' \in [Tokens -> Nat]
    BY <1>8, <1>c, <2>1 DEF RevokeSession, TypeOK
  <2>4. req' \in [Requests -> Handler]
    <3>1. CASE req[r].op = "accept"
      BY <1>8, <1>b, <3>1 DEF RevokeSession, Steps
    <3>2. CASE req[r].op = "delete"
      BY <1>8, <1>b, <3>2 DEF RevokeSession, Steps
    <3>3. CASE req[r].op # "accept" /\ req[r].op # "delete"
      BY <1>8, <1>b, <3>3 DEF RevokeSession, Steps
    <3> QED
      BY <3>1, <3>2, <3>3
  <2> QED
    BY <1>8, <2>2, <2>3, <2>4 DEF RevokeSession, TypeOK, stored
<1>9. CASE Refresh(r)
  <2>1. sessions' \in [Tokens -> Session]
    BY <1>9, <1>d DEF Refresh, TypeOK
  <2> QED
    BY <1>9, <1>b, <2>1 DEF Refresh, Steps, TypeOK, stored, kv
<1>10. CASE InsertRecord(r)
  BY <1>10, <1>b DEF InsertRecord, Steps, TypeOK, kv
<1>11. CASE DeleteLearnerData(r)
  <2>1. disturbed' \in BOOLEAN /\ consent' \in 0 .. MaxTerms
    BY <1>11, AccountAssumption DEF DeleteLearnerData, TypeOK
  <2> QED
    BY <1>11, <1>b, <2>1 DEF DeleteLearnerData, NoLearner, Steps, TypeOK, kv
<1>12. CASE RevokeAllSessionsForUid(r)
  <2>1. marker' \in [at : Nat, until : Nat]
    BY <1>12, <1>a, <1>c DEF RevokeAllSessionsForUid
  <2>2. dead' \subseteq Tokens /\ disturbed' \in BOOLEAN
    BY <1>12 DEF RevokeAllSessionsForUid, TypeOK
  <2> QED
    BY <1>12, <1>b, <2>1, <2>2 DEF RevokeAllSessionsForUid, Steps, TypeOK, stored
<1>13. CASE SetLearnerApproved(r)
  BY <1>13, <1>b DEF SetLearnerApproved, Steps, TypeOK, kv
<1>14. CASE Fail(r)
  BY <1>14, <1>b DEF Fail, Steps, TypeOK, stored, kv
<1> QED
  BY <1>1, <1>2, <1>3, <1>4, <1>5, <1>6, <1>7, <1>8, <1>9, <1>10, <1>11, <1>12,
     <1>13, <1>14 DEF Step, Continue

\* Every reachable state of the account, its tokens and its handlers has its
\* type.
THEOREM TypeCorrect == Spec => []TypeOK
<1>1. TypeOK /\ [Next]_vars => TypeOK'
  <2> SUFFICES ASSUME TypeOK, [Next]_vars PROVE TypeOK'
    OBVIOUS
  <2>1. CASE Tick
    BY <2>1, AccountAssumption DEF Tick, TypeOK, stored, kv
  <2>2. CASE PublishTerms
    BY <2>2, AccountAssumption DEF PublishTerms, TypeOK, stored, kv
  <2>3. CASE UNCHANGED vars
    BY <2>3 DEF vars, TypeOK, stored, kv
  <2> QED
    BY <2>1, <2>2, <2>3, NextCases, StepType
<1> QED
  BY <1>1, InitType, PTL DEF Spec

-----------------------------------------------------------------------------
(***************************************************************************)
(* Sign-outs last                                                          *)
(*                                                                         *)
(* A token is issued once and expires within DefaultTTL of its issue; a    *)
(* sign-out writes an entry that stays 2 * DefaultTTL.  So each signed-out *)
(* token is covered, up to its own expiry, by its tombstone or by the      *)
(* learner's marker.                                                       *)
(***************************************************************************)
UsesToken(r) ==
    \/ req[r].pc \in {"record_consent", "erase", "revoke"}
    \/ req[r].pc = "upsert" /\ req[r].op = "accept"

TokenInv ==
    /\ \A t \in Tokens :
         sessions[t].issued => /\ sessions[t].iat <= now
                               /\ sessions[t].exp <= sessions[t].iat + DefaultTTL
    /\ \A r \in Requests :
         /\ req[r].pc # "done" => ~sessions[r].issued
         /\ UsesToken(r) => sessions[req[r].token].issued

Covered(t) ==
    /\ sessions[t].issued
    /\ \/ sessions[t].exp <= tombstone[t]
       \/ sessions[t].exp <= marker.until /\ sessions[t].iat < marker.at

SignOutInv ==
    /\ TokenInv
    /\ marker.at <= now
    /\ \A t \in dead : Covered(t)

\* The tokens of requests that only move on are what they were.
LEMMA TokensKept ==
    ASSUME TypeOK, SignOutInv, UNCHANGED <<now, sessions, marker>>,
           UNCHANGED <<tombstone, dead>>,
           \A q \in Requests :
             /\ req'[q].pc # "done" => req[q].pc # "done"
             /\ UsesToken(q)' => sessions[req'[q].token].issued
    PROVE  SignOutInv'
  BY DEF SignOutInv, TokenInv, Covered

\* A token just issued is new, so it disturbs no other.
LEMMA TokenIssued ==
    ASSUME TypeOK, SignOutInv, NEW r \in Requests, req[r].pc # "done",
           NEW ttl \in 1 .. DefaultTTL, NEW pending \in BOOLEAN,
           sessions' = [sessions EXCEPT ![r] = NewSession(ttl, pending)],
           UNCHANGED <<now, marker, tombstone, dead>>,
           NEW op, NEW v, Moved(r, op, "done", v)
    PROVE  SignOutInv'
<1>0. req'[r].pc = "done" /\ \A q \in Requests : q # r => req'[q] = req[q]
  BY DEF Moved
<1>1. r \in Tokens /\ ~sessions[r].issued
  BY DEF SignOutInv, TokenInv, Tokens
<1>2. \A u \in Tokens : u # r => sessions'[u] = sessions[u]
  BY DEF TypeOK
<1>3. /\ sessions'[r].issued /\ sessions'[r].iat = now
      /\ sessions'[r].exp = now + ttl
  BY <1>1 DEF TypeOK, NewSession
<1>4. now \in Nat /\ ttl <= DefaultTTL /\ DefaultTTL \in Nat /\ ttl \in Nat
  BY AccountAssumption DEF TypeOK
<1>5. \A t \in Tokens :
        (sessions[t].issued => /\ sessions[t].iat <= now
                               /\ sessions[t].exp <= sessions[t].iat + DefaultTTL)'
  BY <1>2, <1>3, <1>4 DEF SignOutInv, TokenInv
<1>6. \A q \in Requests : req'[q].pc # "done" => ~sessions'[q].issued
  BY <1>0, <1>2 DEF SignOutInv, TokenInv, Tokens
<1>7. \A q \in Requests : UsesToken(q)' => sessions'[req'[q].token].issued
  <2> SUFFICES ASSUME NEW q \in Requests, UsesToken(q)'
               PROVE  sessions'[req'[q].token].issued
    OBVIOUS
  <2>1. req'[q] = req[q] /\ UsesToken(q)
    BY <1>0 DEF UsesToken
  <2>2. sessions[req[q].token].issued /\ req[q].token \in Tokens
    BY <2>1 DEF SignOutInv, TokenInv, TypeOK, Handler
  <2> QED
    BY <1>1, <1>2, <2>1, <2>2
<1>8. \A t \in dead : t # r /\ t \in Tokens
  BY <1>1 DEF SignOutInv, Covered, TypeOK
<1>9. \A t \in dead : Covered(t)'
  BY <1>2, <1>8 DEF SignOutInv, Covered
<1> QED
  BY <1>5, <1>6, <1>7, <1>9 DEF SignOutInv, TokenInv

LEMMA StepSignOut ==
    ASSUME TypeOK, SignOutInv, NEW r \in Requests, Step(r)
    PROVE  SignOutInv'
<1>a. /\ now \in Nat /\ DefaultTTL \in Nat
      /\ DefaultTTL \in 1 .. DefaultTTL /\ PendingTTL \in 1 .. DefaultTTL
  BY AccountAssumption DEF TypeOK
<1>b. ASSUME UNCHANGED <<now, sessions, marker, tombstone, dead>>,
             req[r].pc # "done",
             NEW op, NEW pc, NEW t, Moved(r, op, pc, t),
             UsesToken(r)' => sessions[t].issued
      PROVE  SignOutInv'
  <2>1. \A q \in Requests :
          /\ req'[q].pc # "done" => req[q].pc # "done"
          /\ UsesToken(q)' => sessions[req'[q].token].issued
    BY <1>b DEF SignOutInv, TokenInv, UsesToken, Moved
  <2> QED
    BY <1>b, <2>1, TokensKept
<1>c. ASSUME UNCHANGED <<now, sessions, marker, tombstone, dead>>,
             req[r].pc # "done", NEW pc, Goto(r, pc),
             pc \in {"record_consent", "erase", "revoke", "upsert"} => UsesToken(r)
      PROVE  SignOutInv'
  <2>1. Moved(r, req[r].op, pc, req[r].token)
    BY <1>c, GotoStep
  <2>2. UsesToken(r)' => sessions[req[r].token].issued
    BY <1>c, <2>1 DEF Moved, UsesToken, SignOutInv, TokenInv
  <2> QED
    BY <1>b, <1>c, <2>1, <2>2
<1>1. ASSUME NEW op \in Ops, NEW t \in Tokens, RequireAuth(r, op, t) PROVE SignOutInv'
  <2>1. PICK pc : Moved(r, op, pc, t)
    BY <1>1, EnterStep DEF RequireAuth
  <2>2. /\ sessions[t].issued /\ req[r].pc # "done"
        /\ UNCHANGED <<now, sessions, marker, tombstone, dead>>
    BY <1>1 DEF RequireAuth, At, kv
  <2> QED
    BY <1>b, <2>1, <2>2
<1>2. CASE SignIn(r)
  <2>0. req[r].pc # "done" /\ UNCHANGED <<now, marker, tombstone, dead>>
    BY <1>2 DEF SignIn, At, kv
  <2>1. CASE Enter(r, "signin", FirstToken, "upsert") /\ UNCHANGED sessions
    <3>1. Moved(r, "signin", "upsert", FirstToken)
      BY <2>1, EnterStep
    <3>2. ~UsesToken(r)'
      BY <3>1 DEF Moved, UsesToken
    <3> QED
      BY <1>b, <2>0, <2>1, <3>1, <3>2
  <2>2. CASE /\ Enter(r, "signin", FirstToken, "done")
             /\ sessions' = [sessions EXCEPT ![r] = NewSession(PendingTTL, TRUE)]
    <3>1. Moved(r, "signin", "done", FirstToken)
      BY <2>2, EnterStep
    <3> QED
      BY <1>a, <2>0, <2>2, <3>1, TokenIssued
  <2> QED
    BY <1>2, <2>1, <2>2 DEF SignIn
<1>3. CASE RequireKnownLearner(r)
  <2>1. PICK pc \in {"consent", "done"} : Moved(r, "approve", pc, FirstToken)
    BY <1>3, EnterStep DEF RequireKnownLearner
  <2>2. ~UsesToken(r)'
    BY <2>1 DEF Moved, UsesToken
  <2>3. req[r].pc # "done" /\ UNCHANGED <<now, sessions, marker, tombstone, dead>>
    BY <1>3 DEF RequireKnownLearner, At, kv
  <2> QED
    BY <1>b, <2>1, <2>2, <2>3
<1>4. CASE \/ RequireConsented(r) \/ RequireCurrentConsent(r)
           \/ InsertRecord(r) \/ SetLearnerApproved(r)
  <2>1. req[r].pc # "done" /\ UNCHANGED <<now, sessions, marker, tombstone, dead>>
    BY <1>4 DEF RequireConsented, RequireCurrentConsent, InsertRecord,
       SetLearnerApproved, At, kv
  <2>2. PICK pc \in {"insert", "approve", "done"} : Goto(r, pc)
    BY <1>4 DEF RequireConsented, RequireCurrentConsent, InsertRecord,
       SetLearnerApproved
  <2> QED
    BY <1>c, <2>1, <2>2
<1>5. CASE RecordConsent(r)
  BY <1>c, <1>5 DEF RecordConsent, UsesToken, At, kv
<1>6. CASE UpsertLearner(r)
  <2>0. req[r].pc = "upsert" /\ UNCHANGED <<now, sessions, marker, tombstone, dead>>
    BY <1>6 DEF UpsertLearner, At, kv
  <2>1. CASE req[r].op # "accept"
    BY <1>c, <1>6, <2>0, <2>1 DEF UpsertLearner
  <2>2. CASE req[r].op = "accept"
    BY <1>c, <1>6, <2>0, <2>2 DEF UpsertLearner, UsesToken
  <2> QED
    BY <2>1, <2>2
<1>7. CASE DeleteLearnerData(r)
  BY <1>c, <1>7 DEF DeleteLearnerData, UsesToken, At, kv
<1>8. CASE Fail(r)
  BY <1>c, <1>8 DEF Fail, InFlight, kv
<1>9. CASE IssueSession(r)
  <2>1. Moved(r, req[r].op, "done", req[r].token)
    BY <1>9, GotoStep DEF IssueSession
  <2> QED
    BY <1>9, <1>a, <2>1, TokenIssued DEF IssueSession, At, kv
<1>10. CASE Refresh(r)
  <2>1. Moved(r, req[r].op, "done", req[r].token)
    BY <1>10, GotoStep DEF Refresh
  <2>2. req[r].pc # "done" /\ UNCHANGED <<now, marker, tombstone, dead>>
    BY <1>10 DEF Refresh, At, kv
  <2>3. CASE sessions' = [sessions EXCEPT ![r] = NewSession(DefaultTTL, FALSE)]
    BY <1>a, <2>1, <2>2, <2>3, TokenIssued
  <2>4. CASE sessions' = sessions
    BY <1>10, <1>c, <2>2, <2>4 DEF Refresh
  <2> QED
    BY <1>10, <2>3, <2>4 DEF Refresh
<1>11. CASE RevokeSession(r)
  <2>1. PICK t \in Tokens : t = req[r].token /\ sessions[t].issued
    BY <1>11 DEF RevokeSession, SignOutInv, TokenInv, UsesToken, At, TypeOK, Handler
  <2>2. \E pc \in {"issue", "mark", "done"} : Goto(r, pc)
    <3>1. CASE req[r].op = "accept"
      BY <1>11, <3>1 DEF RevokeSession
    <3>2. CASE req[r].op = "delete"
      BY <1>11, <3>2 DEF RevokeSession
    <3>3. CASE req[r].op # "accept" /\ req[r].op # "delete"
      BY <1>11, <3>3 DEF RevokeSession
    <3> QED
      BY <3>1, <3>2, <3>3
  <2>3. /\ req'[r].pc \in {"issue", "mark", "done"}
        /\ \A q \in Requests : q # r => req'[q] = req[q]
    BY <2>2, GotoStep DEF Moved
  <2>4. TokenInv'
    <3>1. req[r].pc = "revoke" /\ UNCHANGED <<now, sessions>>
      BY <1>11 DEF RevokeSession, At
    <3> QED
      BY <2>3, <3>1 DEF SignOutInv, TokenInv, UsesToken
  <2>5. /\ tombstone'[t] = now + 2 * DefaultTTL
        /\ \A u \in Tokens : u # t => tombstone'[u] = tombstone[u]
    BY <1>11, <2>1 DEF RevokeSession, TypeOK
  <2>6. sessions[t].exp <= now + 2 * DefaultTTL
    <3>1. sessions[t].iat \in Nat /\ sessions[t].exp \in Nat
      BY <2>1 DEF TypeOK, Session
    <3>2. sessions[t].iat <= now /\ sessions[t].exp <= sessions[t].iat + DefaultTTL
      BY <2>1 DEF SignOutInv, TokenInv
    <3> QED
      BY <1>a, <3>1, <3>2
  <2>7. \A u \in dead' : Covered(u)'
    <3>1. dead' = dead \cup {t} /\ UNCHANGED <<sessions, marker>>
      BY <1>11, <2>1 DEF RevokeSession
    <3>2. now' = now
      BY <1>11 DEF RevokeSession
    <3>3. sessions'[t].issued /\ sessions'[t].exp <= tombstone'[t]
      BY <2>1, <2>5, <2>6, <3>1
    <3>4. Covered(t)'
      BY <3>3 DEF Covered
    <3>5. \A u \in dead : u # t => Covered(u)'
      BY <2>5, <3>1 DEF Covered, SignOutInv, TypeOK
    <3> QED
      BY <3>1, <3>4, <3>5
  <2> QED
    BY <1>11, <2>4, <2>7 DEF RevokeSession, SignOutInv
<1>12. CASE RevokeAllSessionsForUid(r)
  <2>1. req'[r].pc = "done" /\ \A q \in Requests : q # r => req'[q] = req[q]
    BY <1>12, GotoStep DEF RevokeAllSessionsForUid, Moved
  <2>2. TokenInv'
    BY <1>12, <2>1 DEF RevokeAllSessionsForUid, SignOutInv, TokenInv, UsesToken, At
  <2>3. marker'.at = now /\ marker'.until = now + 2 * DefaultTTL
    BY <1>12 DEF RevokeAllSessionsForUid
  <2>4. ASSUME NEW t \in Tokens, sessions[t].issued
        PROVE  sessions[t].exp <= now + 2 * DefaultTTL
    <3>1. sessions[t].iat \in Nat /\ sessions[t].exp \in Nat
      BY DEF TypeOK, Session
    <3>2. sessions[t].iat <= now /\ sessions[t].exp <= sessions[t].iat + DefaultTTL
      BY <2>4 DEF SignOutInv, TokenInv
    <3> QED
      BY <1>a, <3>1, <3>2
  <2>5. ASSUME NEW t \in dead' PROVE Covered(t)'
    <3>1. t \in Tokens /\ UNCHANGED <<sessions, tombstone>>
      BY <1>12 DEF RevokeAllSessionsForUid, TypeOK
    <3>2. sessions[t].iat \in Nat /\ marker.at \in Nat
      BY <3>1 DEF TypeOK, Session
    <3>3. CASE t \in dead
      <4>1. Covered(t) /\ marker.at <= now
        BY <3>3 DEF SignOutInv
      <4> QED
        BY <1>a, <2>3, <2>4, <3>1, <3>2, <4>1 DEF Covered
    <3>4. CASE sessions[t].issued /\ sessions[t].iat < now
      BY <2>3, <2>4, <3>1, <3>4 DEF Covered
    <3> QED
      BY <1>12, <2>5, <3>3, <3>4 DEF RevokeAllSessionsForUid
  <2>6. marker'.at <= now'
    BY <1>12, <1>a, <2>3 DEF RevokeAllSessionsForUid
  <2> QED
    BY <2>2, <2>5, <2>6 DEF SignOutInv
<1> QED
  BY <1>1, <1>2, <1>3, <1>4, <1>5, <1>6, <1>7, <1>8, <1>9, <1>10, <1>11, <1>12
     DEF Step, Continue

LEMMA SignOutInvHolds == Spec => []SignOutInv
<1>1. Init => SignOutInv
  <2> SUFFICES ASSUME Init PROVE SignOutInv
    OBVIOUS
  <2>1. \A t \in Tokens : sessions[t].issued => t = FirstToken
    BY DEF Init, NoSession
  <2>2. \A t \in Tokens :
          sessions[t].issued => sessions[t].iat = 0 /\ sessions[t].exp = 0 + DefaultTTL
    BY DEF Init, NoSession, NewSession
  <2>3. \A r \in Requests : req[r].pc = "idle"
    BY DEF Init, IdleHandler
  <2>4. \A r \in Requests : ~sessions[r].issued
    BY <2>1, AccountAssumption DEF Tokens
  <2>5. now = 0 /\ DefaultTTL \in Nat
    BY AccountAssumption DEF Init
  <2>6. TokenInv
    BY <2>2, <2>3, <2>4, <2>5 DEF TokenInv, UsesToken
  <2> QED
    BY <2>6 DEF Init, SignOutInv
<1>2. TypeOK /\ SignOutInv /\ [Next]_vars => SignOutInv'
  <2> SUFFICES ASSUME TypeOK, SignOutInv, [Next]_vars PROVE SignOutInv'
    OBVIOUS
  <2>1. CASE Tick
    <3>1. now \in Nat /\ now' = now + 1 /\ marker.at \in Nat
      BY <2>1, AccountAssumption DEF Tick, TypeOK
    <3>2. \A t \in Tokens : sessions[t].iat \in Nat
      BY DEF TypeOK, Session
    <3>3. UNCHANGED <<sessions, marker, tombstone, dead, req>>
      BY <2>1 DEF Tick, kv
    <3>4. TokenInv'
      BY <3>1, <3>2, <3>3 DEF SignOutInv, TokenInv, UsesToken
    <3>5. marker'.at <= now'
      BY <3>1, <3>3 DEF SignOutInv
    <3>6. \A t \in dead' : Covered(t)'
      BY <3>3 DEF SignOutInv, Covered
    <3> QED
      BY <3>4, <3>5, <3>6 DEF SignOutInv
  <2>2. CASE PublishTerms
    BY <2>2 DEF PublishTerms, SignOutInv, TokenInv, UsesToken, Covered, kv
  <2>3. CASE UNCHANGED vars
    BY <2>3 DEF vars, SignOutInv, TokenInv, UsesToken, Covered, kv
  <2> QED
    BY <2>1, <2>2, <2>3, NextCases, StepSignOut
<1> QED
  BY <1>1, <1>2, TypeCorrect, PTL DEF Spec

\* Logging out, declining, accepting and erasing are final: a token once signed
\* out is refused for as long as it would have lived.
THEOREM SignOutHolds == Spec => []SignedOutStaysOut
<1>1. TypeOK /\ SignOutInv => SignedOutStaysOut
  <2> SUFFICES ASSUME TypeOK, SignOutInv, NEW t \in dead, Accepts(t) PROVE FALSE
    BY DEF SignedOutStaysOut
  <2>1. Covered(t)
    BY DEF SignOutInv
  <2>2. /\ now \in Nat /\ sessions[t].exp \in Nat /\ tombstone[t] \in Nat
        /\ marker.until \in Nat
    BY AccountAssumption DEF TypeOK, Session
  <2>3. now < sessions[t].exp
    BY DEF Accepts, Valid
  <2> QED
    BY <2>1, <2>2, <2>3 DEF Covered, Accepts, Revoked
<1> QED
  BY <1>1, TypeCorrect, SignOutInvHolds, PTL

-----------------------------------------------------------------------------
(***************************************************************************)
(* No trace before acceptance                                              *)
(*                                                                         *)
(* Until a consent is recorded no consent can satisfy a check, so no       *)
(* handler gets past one, and the only tokens issued are pending.          *)
(***************************************************************************)
TraceInv ==
    /\ ZeroTraceUntilAccepted
    /\ ~accepted =>
         \A r \in Requests :
           /\ req[r].pc \notin {"upsert", "issue", "refresh"}
           /\ ~(req[r].pc \in {"erase", "revoke"} /\ req[r].op = "accept")

LEMMA StepTrace ==
    ASSUME TypeOK, TraceInv, NEW r \in Requests, Step(r)
    PROVE  TraceInv'
<1>a. ASSUME UNCHANGED <<stored, sessions, accepted>>, NEW op, NEW pc, NEW t,
             Moved(r, op, pc, t),
             ~accepted => /\ pc \notin {"upsert", "issue", "refresh"}
                          /\ ~(pc \in {"erase", "revoke"} /\ op = "accept")
      PROVE  TraceInv'
  BY <1>a DEF TraceInv, ZeroTraceUntilAccepted, Stored, stored, Moved
<1>b. ~accepted => ~ConsentSatisfiesCurrentTerms
  BY AccountAssumption DEF TraceInv, ZeroTraceUntilAccepted,
     ConsentSatisfiesCurrentTerms, TypeOK
<1>c. ASSUME accepted' PROVE TraceInv'
  BY <1>c DEF TraceInv, ZeroTraceUntilAccepted
<1>1. ASSUME NEW op \in Ops, NEW t \in Tokens, RequireAuth(r, op, t) PROVE TraceInv'
  <2>1. op \in AllOps \ {"signin", "approve"} /\ sessions[t].pending \in BOOLEAN
    BY <1>1, AccountAssumption DEF RequireAuth, TypeOK, Session
  <2>2. ~accepted => sessions[t].pending
    BY <1>1 DEF RequireAuth, TraceInv, ZeroTraceUntilAccepted
  <2>3. ~accepted =>
          /\ FirstStep(op, sessions[t].pending) \notin {"upsert", "issue", "refresh"}
          /\ op = "accept" => FirstStep(op, sessions[t].pending) = "record_consent"
    BY <2>1, <2>2 DEF FirstStep, AllOps
  <2>4. PICK pc : /\ Moved(r, op, pc, t)
                  /\ pc = FirstStep(op, sessions[t].pending) \/ pc = "done"
    BY <1>1, EnterStep DEF RequireAuth
  <2> QED
    BY <1>1, <1>a, <2>3, <2>4 DEF RequireAuth
<1>2. CASE SignIn(r)
  <2>1. CASE ConsentSatisfiesCurrentTerms
    BY <1>2, <1>b, <1>c, <2>1 DEF SignIn
  <2>2. CASE ~ConsentSatisfiesCurrentTerms
    <3>1. Moved(r, "signin", "done", FirstToken)
      BY <1>2, <2>2, EnterStep DEF SignIn
    <3>2. \A t \in Tokens : sessions'[t].issued =>
            sessions'[t].pending \/ sessions'[t] = sessions[t]
      BY <1>2, <2>2 DEF SignIn, TypeOK, NewSession
    <3> QED
      BY <1>2, <3>1, <3>2
         DEF SignIn, TraceInv, ZeroTraceUntilAccepted, Stored, stored, Moved
  <2> QED
    BY <2>1, <2>2
<1>3. CASE RequireKnownLearner(r)
  <2>1. PICK pc \in {"consent", "done"} : Moved(r, "approve", pc, FirstToken)
    BY <1>3, EnterStep DEF RequireKnownLearner
  <2> QED
    BY <1>3, <1>a, <2>1 DEF RequireKnownLearner
<1>4. CASE RequireConsented(r) \/ RequireCurrentConsent(r) \/ Fail(r)
  <2>1. PICK pc \in {"insert", "approve", "done"} : Moved(r, req[r].op, pc, req[r].token)
    BY <1>4, GotoStep DEF RequireConsented, RequireCurrentConsent, Fail
  <2> QED
    BY <1>4, <1>a, <2>1 DEF RequireConsented, RequireCurrentConsent, Fail
<1>5. CASE RecordConsent(r)
  BY <1>5, <1>c DEF RecordConsent
<1>6. CASE UpsertLearner(r) \/ IssueSession(r) \/ Refresh(r)
  <2>1. accepted /\ accepted' = accepted
    BY <1>6 DEF UpsertLearner, IssueSession, Refresh, At, TraceInv
  <2> QED
    BY <1>c, <2>1
<1>7. CASE RevokeSession(r)
  <2>1. CASE req[r].op = "accept"
    <3>1. accepted /\ accepted' = accepted
      BY <1>7, <2>1 DEF RevokeSession, At, TraceInv
    <3> QED
      BY <1>c, <3>1
  <2>2. CASE req[r].op # "accept"
    <3>1. PICK pc \in {"mark", "done"} : Goto(r, pc)
      <4>1. CASE req[r].op = "delete"
        BY <1>7, <4>1 DEF RevokeSession
      <4>2. CASE req[r].op # "delete"
        BY <1>7, <2>2, <4>2 DEF RevokeSession
      <4> QED
        BY <4>1, <4>2
    <3>2. Moved(r, req[r].op, pc, req[r].token)
      BY <3>1, GotoStep
    <3> QED
      BY <1>7, <1>a, <3>1, <3>2 DEF RevokeSession
  <2> QED
    BY <2>1, <2>2
<1>8. CASE InsertRecord(r)
  <2>1. Moved(r, req[r].op, "done", req[r].token)
    BY <1>8, GotoStep DEF InsertRecord
  <2>2. ~accepted => records' = records
    BY <1>8 DEF InsertRecord, TraceInv, ZeroTraceUntilAccepted, Stored, TypeOK
  <2> QED
    BY <1>8, <2>1, <2>2
       DEF InsertRecord, TraceInv, ZeroTraceUntilAccepted, Stored, Moved
<1>9. CASE DeleteLearnerData(r)
  <2>1. Moved(r, req[r].op, "revoke", req[r].token)
    BY <1>9, GotoStep DEF DeleteLearnerData
  <2>2. ~accepted => req[r].op # "accept"
    BY <1>9 DEF DeleteLearnerData, At, TraceInv
  <2> QED
    BY <1>9, <2>1, <2>2
       DEF DeleteLearnerData, TraceInv, ZeroTraceUntilAccepted, Stored, NoLearner, Moved
<1>10. CASE RevokeAllSessionsForUid(r)
  <2>1. Moved(r, req[r].op, "done", req[r].token)
    BY <1>10, GotoStep DEF RevokeAllSessionsForUid
  <2> QED
    BY <1>10, <1>a, <2>1 DEF RevokeAllSessionsForUid
<1>11. CASE SetLearnerApproved(r)
  <2>1. Moved(r, req[r].op, "done", req[r].token)
    BY <1>11, GotoStep DEF SetLearnerApproved
  <2>2. learner'.exists = learner.exists
    BY <1>11 DEF SetLearnerApproved, TypeOK
  <2> QED
    BY <1>11, <2>1, <2>2
       DEF SetLearnerApproved, TraceInv, ZeroTraceUntilAccepted, Stored, Moved
<1> QED
  BY <1>1, <1>2, <1>3, <1>4, <1>5, <1>6, <1>7, <1>8, <1>9, <1>10, <1>11
     DEF Step, Continue

\* A visitor who never accepts the terms leaves nothing stored and holds only
\* pending tokens, through every race and failure.
THEOREM ZeroTraceHolds == Spec => []ZeroTraceUntilAccepted
<1>1. Init => TraceInv
  <2> SUFFICES ASSUME Init PROVE TraceInv
    OBVIOUS
  <2>1. \A r \in Requests : req[r].pc = "idle"
    BY DEF Init, IdleHandler
  <2>2. learner.exists = accepted
    BY DEF Init, NoLearner
  <2>3. ~accepted => \A t \in Tokens : ~sessions[t].issued
    BY DEF Init, NoSession
  <2> QED
    BY <2>1, <2>2, <2>3 DEF Init, TraceInv, ZeroTraceUntilAccepted, Stored
<1>2. TypeOK /\ TraceInv /\ [Next]_vars => TraceInv'
  <2> SUFFICES ASSUME TypeOK, TraceInv, [Next]_vars PROVE TraceInv'
    OBVIOUS
  <2>1. CASE Tick \/ PublishTerms \/ UNCHANGED vars
    BY <2>1 DEF Tick, PublishTerms, vars, stored, TraceInv, ZeroTraceUntilAccepted, Stored
  <2> QED
    BY <2>1, NextCases, StepTrace
<1>3. TraceInv => ZeroTraceUntilAccepted
  BY DEF TraceInv
<1> QED
  BY <1>1, <1>2, <1>3, TypeCorrect, PTL DEF Spec

-----------------------------------------------------------------------------
(***************************************************************************)
(* Consent before storage                                                  *)
(*                                                                         *)
(* A handler about to create the learner row has just seen or written a    *)
(* consent, and only an erasure takes a consent away: an erasure that no   *)
(* other request overlaps finds no such handler.                           *)
(***************************************************************************)
ConsentInv ==
    ~disturbed =>
      /\ NothingWithoutConsent
      /\ \A r \in Requests : req[r].pc = "upsert" => consent # 0

LEMMA StepConsent ==
    ASSUME TypeOK, ConsentInv, NEW r \in Requests, Step(r)
    PROVE  ConsentInv'
<1>a. ASSUME UNCHANGED stored, disturbed => disturbed', NEW op, NEW pc, NEW t,
             Moved(r, op, pc, t), pc = "upsert" => consent # 0
      PROVE  ConsentInv'
  BY <1>a DEF ConsentInv, NothingWithoutConsent, Stored, stored, Moved
<1>b. ConsentSatisfiesCurrentTerms => consent # 0
  BY AccountAssumption DEF ConsentSatisfiesCurrentTerms, TypeOK
<1>c. Arrival => (disturbed => disturbed')
  BY DEF Arrival
<1>1. ASSUME NEW op \in Ops, NEW t \in Tokens, RequireAuth(r, op, t) PROVE ConsentInv'
  <2>1. op \in AllOps \ {"signin", "approve"} /\ sessions[t].pending \in BOOLEAN
    BY <1>1, AccountAssumption DEF RequireAuth, TypeOK, Session
  <2>2. FirstStep(op, sessions[t].pending) # "upsert"
    BY <2>1, FirstStepType
  <2>3. PICK pc : Moved(r, op, pc, t) /\ pc # "upsert"
    BY <1>1, <2>2, EnterStep DEF RequireAuth
  <2> QED
    BY <1>1, <1>a, <1>c, <2>3 DEF RequireAuth
<1>2. CASE SignIn(r)
  <2>1. CASE ConsentSatisfiesCurrentTerms
    <3>1. Moved(r, "signin", "upsert", FirstToken)
      BY <1>2, <2>1, EnterStep DEF SignIn
    <3> QED
      BY <1>2, <1>a, <1>b, <1>c, <2>1, <3>1 DEF SignIn
  <2>2. CASE ~ConsentSatisfiesCurrentTerms
    <3>1. Moved(r, "signin", "done", FirstToken)
      BY <1>2, <2>2, EnterStep DEF SignIn
    <3> QED
      BY <1>2, <1>a, <1>c, <3>1 DEF SignIn
  <2> QED
    BY <2>1, <2>2
<1>3. CASE RequireKnownLearner(r)
  <2>1. PICK pc \in {"consent", "done"} : Moved(r, "approve", pc, FirstToken)
    BY <1>3, EnterStep DEF RequireKnownLearner
  <2> QED
    BY <1>3, <1>a, <1>c, <2>1 DEF RequireKnownLearner
<1>4. CASE \/ RequireConsented(r) \/ RequireCurrentConsent(r) \/ Fail(r)
           \/ IssueSession(r) \/ Refresh(r) \/ RevokeAllSessionsForUid(r)
  <2>1. PICK pc \in {"insert", "approve", "done"} : Goto(r, pc)
    BY <1>4 DEF RequireConsented, RequireCurrentConsent, Fail,
       IssueSession, Refresh, RevokeAllSessionsForUid
  <2>2. UNCHANGED stored
    BY <1>4 DEF RequireConsented, RequireCurrentConsent, Fail, IssueSession,
       Refresh, RevokeAllSessionsForUid
  <2>3. disturbed => disturbed'
    BY <1>4 DEF RequireConsented, RequireCurrentConsent, Fail, IssueSession,
       Refresh, RevokeAllSessionsForUid
  <2>4. Moved(r, req[r].op, pc, req[r].token)
    BY <2>1, GotoStep
  <2> QED
    BY <1>a, <2>2, <2>3, <2>4
<1>5. CASE RecordConsent(r)
  <2>1. consent' = terms /\ terms # 0 /\ consent' # 0
    BY <1>5, AccountAssumption DEF RecordConsent, TypeOK
  <2> QED
    BY <2>1 DEF ConsentInv, NothingWithoutConsent
<1>6. CASE UpsertLearner(r)
  <2>1. PICK pc \in {"revoke", "issue"} : Moved(r, req[r].op, pc, req[r].token)
    BY <1>6, GotoStep DEF UpsertLearner
  <2>2. ~disturbed => consent # 0
    BY <1>6 DEF UpsertLearner, At, ConsentInv
  <2> QED
    BY <1>6, <2>1, <2>2 DEF UpsertLearner, ConsentInv, NothingWithoutConsent, Moved
<1>7. CASE RevokeSession(r)
  <2>1. PICK pc \in {"issue", "mark", "done"} : Goto(r, pc)
    <3>1. CASE req[r].op = "accept"
      BY <1>7, <3>1 DEF RevokeSession
    <3>2. CASE req[r].op = "delete"
      BY <1>7, <3>2 DEF RevokeSession
    <3>3. CASE req[r].op # "accept" /\ req[r].op # "delete"
      BY <1>7, <3>3 DEF RevokeSession
    <3> QED
      BY <3>1, <3>2, <3>3
  <2>2. Moved(r, req[r].op, pc, req[r].token)
    BY <2>1, GotoStep
  <2> QED
    BY <1>7, <1>a, <2>2 DEF RevokeSession
<1>8. CASE InsertRecord(r)
  <2>1. Moved(r, req[r].op, "done", req[r].token)
    BY <1>8, GotoStep DEF InsertRecord
  <2> QED
    BY <1>8, <2>1 DEF InsertRecord, ConsentInv, NothingWithoutConsent, Stored, Moved
<1>9. CASE DeleteLearnerData(r)
  <2>1. Moved(r, req[r].op, "revoke", req[r].token)
    BY <1>9, GotoStep DEF DeleteLearnerData
  <2>2. \A q \in Requests : req[q].pc = "upsert" => InFlight(q)
    BY DEF InFlight
  <2>3. ~Stored'
    BY <1>9 DEF DeleteLearnerData, Stored, NoLearner
  <2>4. ~disturbed' => \A q \in Requests : req'[q].pc # "upsert"
    BY <1>9, <2>1, <2>2 DEF DeleteLearnerData, Moved
  <2> QED
    BY <2>3, <2>4 DEF ConsentInv, NothingWithoutConsent
<1>10. CASE SetLearnerApproved(r)
  <2>1. Moved(r, req[r].op, "done", req[r].token)
    BY <1>10, GotoStep DEF SetLearnerApproved
  <2>2. learner'.exists = learner.exists
    BY <1>10 DEF SetLearnerApproved, TypeOK
  <2> QED
    BY <1>10, <2>1, <2>2
       DEF SetLearnerApproved, ConsentInv, NothingWithoutConsent, Stored, Moved
<1> QED
  BY <1>1, <1>2, <1>3, <1>4, <1>5, <1>6, <1>7, <1>8, <1>9, <1>10 DEF Step, Continue

\* As long as no erasure overlaps another request or fails halfway, nothing is
\* stored for a learner without a consent row.
THEOREM ConsentHolds == Spec => []NothingWithoutConsentUndisturbed
<1>1. Init => ConsentInv
  <2> SUFFICES ASSUME Init PROVE ConsentInv
    OBVIOUS
  <2>1. \A r \in Requests : req[r].pc = "idle"
    BY DEF Init, IdleHandler
  <2>2. learner.exists = accepted
    BY DEF Init, NoLearner
  <2> QED
    BY <2>1, <2>2 DEF Init, ConsentInv, NothingWithoutConsent, Stored
<1>2. TypeOK /\ ConsentInv /\ [Next]_vars => ConsentInv'
  <2> SUFFICES ASSUME TypeOK, ConsentInv, [Next]_vars PROVE ConsentInv'
    OBVIOUS
  <2>1. CASE Tick \/ PublishTerms \/ UNCHANGED vars
    BY <2>1 DEF Tick, PublishTerms, vars, stored, ConsentInv,
                NothingWithoutConsent, Stored
  <2> QED
    BY <2>1, NextCases, StepConsent
<1>3. ConsentInv => NothingWithoutConsentUndisturbed
  BY DEF ConsentInv, NothingWithoutConsentUndisturbed
<1> QED
  BY <1>1, <1>2, <1>3, TypeCorrect, PTL DEF Spec

-----------------------------------------------------------------------------
(***************************************************************************)
(* Signed out everywhere                                                   *)
(*                                                                         *)
(* An erasure that runs undisturbed finds no handler on its way to a full  *)
(* session, and its marker signs out every token issued before.  Until     *)
(* somebody consents again no handler can get on such a way: a sign-in     *)
(* fails its consent check and /me needs a full session to start from.     *)
(***************************************************************************)
IsErasing(op, pc) == op = "delete" /\ pc \in {"revoke", "mark"}

IssuesFullSession(op, pc) ==
    \/ pc \in {"upsert", "issue", "refresh"}
    \/ pc = "revoke" /\ op = "accept"

FullSession(t) == sessions[t].issued /\ ~sessions[t].pending

LogoutInv ==
    /\ \A r \in Requests : req[r].pc \in {"erase", "mark"} => req[r].op = "delete"
    /\ ~disturbed =>
         /\ Erasing => \A r \in Requests :
                         InFlight(r) => IsErasing(req[r].op, req[r].pc)
         /\ consent = 0 =>
              /\ \A r \in Requests : ~IssuesFullSession(req[r].op, req[r].pc)
              /\ ~Erasing => \A t \in Tokens : FullSession(t) => t \in dead

\* A step of a handler that is not erasing keeps the invariant if, where no
\* consent is left, it neither issues a full session nor is about to.
LEMMA QuietStep ==
    ASSUME TypeOK, LogoutInv, NEW r \in Requests, ~IsErasing(req[r].op, req[r].pc),
           NEW op, NEW pc, NEW v, Moved(r, op, pc, v),
           ~IsErasing(op, pc), pc # "mark", pc = "erase" => op = "delete",
           ~disturbed' => ~disturbed /\ (InFlight(r) \/ ~Erasing),
           dead \subseteq dead',
           ~disturbed' /\ ~Erasing /\ consent' = 0 =>
             /\ consent = 0
             /\ ~IssuesFullSession(op, pc)
             /\ \A t \in Tokens : FullSession(t)' => FullSession(t)
    PROVE  LogoutInv'
<1>1. /\ req'[r].op = op /\ req'[r].pc = pc
      /\ \A q \in Requests : q # r => req'[q] = req[q]
  BY DEF Moved
<1>2. Erasing' <=> Erasing
  BY <1>1 DEF Erasing, IsErasing
<1>3. \A q \in Requests : req'[q].pc \in {"erase", "mark"} => req'[q].op = "delete"
  BY <1>1 DEF LogoutInv
<1>4. ~disturbed' => ~Erasing
  BY DEF LogoutInv
<1>5. ASSUME ~disturbed', consent' = 0
      PROVE  /\ \A q \in Requests : ~IssuesFullSession(req'[q].op, req'[q].pc)
             /\ \A t \in Tokens : FullSession(t)' => t \in dead'
  BY <1>1, <1>4, <1>5 DEF LogoutInv
<1> QED
  BY <1>2, <1>3, <1>4, <1>5 DEF LogoutInv

LEMMA StepLogout ==
    ASSUME TypeOK, TokenInv, SignedOutStaysOut, LogoutInv, NEW r \in Requests, Step(r)
    PROVE  LogoutInv'
<1>a. consent = 0 => ~ConsentSatisfiesCurrentTerms
  BY AccountAssumption DEF ConsentSatisfiesCurrentTerms, TypeOK
<1>b. ~disturbed /\ consent = 0 => ~IssuesFullSession(req[r].op, req[r].pc)
  BY DEF LogoutInv
<1>c. Arrival => (~disturbed' => ~disturbed /\ ~Erasing)
  BY DEF Arrival
<1>1. ASSUME NEW op \in Ops, NEW t \in Tokens, RequireAuth(r, op, t) PROVE LogoutInv'
  <2>1. op \in AllOps \ {"signin", "approve"} /\ sessions[t].pending \in BOOLEAN
    BY <1>1, AccountAssumption DEF RequireAuth, TypeOK, Session
  <2>2. PICK pc : /\ Moved(r, op, pc, t)
                  /\ \/ pc = "done"
                     \/ pc = FirstStep(op, sessions[t].pending) /\ Accepts(t)
    BY <1>1, EnterStep DEF RequireAuth
  <2>3. /\ ~IsErasing(op, pc) /\ pc # "mark" /\ (pc = "erase" => op = "delete")
        /\ IssuesFullSession(op, pc) => Accepts(t) /\ ~sessions[t].pending
    BY <2>1, <2>2 DEF FirstStep, AllOps, IsErasing, IssuesFullSession
  <2>4. /\ sessions[t].issued /\ Arrival /\ ~IsErasing(req[r].op, req[r].pc)
        /\ UNCHANGED <<consent, sessions, dead>>
    BY <1>1 DEF RequireAuth, At, IsErasing, stored
  <2>5. ~disturbed /\ ~Erasing /\ consent = 0 => ~IssuesFullSession(op, pc)
    BY <2>3, <2>4 DEF LogoutInv, FullSession, SignedOutStaysOut
  <2> QED
    BY <1>c, <2>2, <2>3, <2>4, <2>5, QuietStep DEF FullSession
<1>2. CASE SignIn(r)
  <2>1. /\ Arrival /\ ~IsErasing(req[r].op, req[r].pc)
        /\ UNCHANGED <<consent, dead>>
    BY <1>2 DEF SignIn, At, IsErasing, stored
  <2>2. CASE ConsentSatisfiesCurrentTerms
    <3>1. Moved(r, "signin", "upsert", FirstToken)
      BY <1>2, <2>2, EnterStep DEF SignIn
    <3> QED
      BY <1>a, <1>c, <2>1, <2>2, <3>1, QuietStep DEF IsErasing
  <2>3. CASE ~ConsentSatisfiesCurrentTerms
    <3>1. Moved(r, "signin", "done", FirstToken)
      BY <1>2, <2>3, EnterStep DEF SignIn
    <3>2. \A t \in Tokens : FullSession(t)' => FullSession(t)
      BY <1>2, <2>3 DEF SignIn, TypeOK, NewSession, FullSession
    <3> QED
      BY <1>c, <2>1, <3>1, <3>2, QuietStep DEF IsErasing, IssuesFullSession
  <2> QED
    BY <2>2, <2>3
<1>3. CASE RequireKnownLearner(r)
  <2>1. PICK pc \in {"consent", "done"} : Moved(r, "approve", pc, FirstToken)
    BY <1>3, EnterStep DEF RequireKnownLearner
  <2>2. /\ Arrival /\ ~IsErasing(req[r].op, req[r].pc)
        /\ UNCHANGED <<consent, sessions, dead>>
    BY <1>3 DEF RequireKnownLearner, At, IsErasing, stored
  <2> QED
    BY <1>c, <2>1, <2>2, QuietStep DEF IsErasing, IssuesFullSession, FullSession
<1>4. CASE \/ RequireConsented(r) \/ RequireCurrentConsent(r)
           \/ InsertRecord(r) \/ SetLearnerApproved(r)
  <2>1. PICK pc \in {"insert", "approve", "done"} : Goto(r, pc)
    BY <1>4 DEF RequireConsented, RequireCurrentConsent, InsertRecord,
       SetLearnerApproved
  <2>2. /\ UNCHANGED <<consent, sessions, dead, disturbed>>
        /\ req[r].pc \in {"consent", "insert", "approve"}
    BY <1>4 DEF RequireConsented, RequireCurrentConsent, InsertRecord,
       SetLearnerApproved, At, stored
  <2>3. Moved(r, req[r].op, pc, req[r].token)
    BY <2>1, GotoStep
  <2> QED
    BY <2>2, <2>3, QuietStep DEF IsErasing, IssuesFullSession, FullSession, InFlight
<1>5. CASE Fail(r)
  <2>1. Moved(r, req[r].op, "done", req[r].token)
    BY <1>5, GotoStep DEF Fail
  <2>2. CASE req[r].op = "delete"
    BY <1>5, <2>1, <2>2 DEF Fail, LogoutInv, Moved
  <2>3. CASE req[r].op # "delete"
    <3>1. /\ UNCHANGED <<consent, sessions, dead>> /\ disturbed' = disturbed
          /\ InFlight(r)
      BY <1>5, <2>3 DEF Fail, stored, TypeOK
    <3> QED
      BY <2>1, <2>3, <3>1, QuietStep DEF IsErasing, IssuesFullSession, FullSession
  <2> QED
    BY <2>2, <2>3
<1>6. CASE RecordConsent(r)
  <2>1. Moved(r, req[r].op, "upsert", req[r].token)
    BY <1>6, GotoStep DEF RecordConsent
  <2>2. consent' # 0
    BY <1>6, AccountAssumption DEF RecordConsent, TypeOK
  <2>3. UNCHANGED <<dead, disturbed>> /\ req[r].pc = "record_consent"
    BY <1>6 DEF RecordConsent, At
  <2> QED
    BY <2>1, <2>2, <2>3, QuietStep DEF IsErasing, InFlight
<1>7. CASE UpsertLearner(r) \/ IssueSession(r) \/ Refresh(r)
  <2>1. PICK pc \in {"revoke", "issue", "done"} :
          Goto(r, pc) /\ (pc = "revoke" => req[r].op = "accept")
    BY <1>7 DEF UpsertLearner, IssueSession, Refresh
  <2>2. Moved(r, req[r].op, pc, req[r].token)
    BY <2>1, GotoStep
  <2>3. /\ UNCHANGED <<consent, dead, disturbed>>
        /\ req[r].pc \in {"upsert", "issue", "refresh"}
    BY <1>7 DEF UpsertLearner, IssueSession, Refresh, At, stored
  <2>4. ~disturbed => consent # 0
    BY <1>b, <2>3 DEF IssuesFullSession
  <2> QED
    BY <2>1, <2>2, <2>3, <2>4, QuietStep DEF IsErasing, InFlight
<1>8. CASE RevokeSession(r)
  <2>1. /\ UNCHANGED <<consent, sessions, disturbed>> /\ dead \subseteq dead'
        /\ req[r].pc = "revoke"
    BY <1>8 DEF RevokeSession, At, stored
  <2>2. CASE req[r].op = "delete"
    <3>1. Moved(r, "delete", "mark", req[r].token)
      BY <1>8, <2>2, GotoStep DEF RevokeSession
    <3>2. Erasing'
      BY <3>1 DEF Erasing, Moved
    <3>3. Erasing
      BY <2>1, <2>2 DEF Erasing
    <3> QED
      BY <2>1, <2>2, <3>1, <3>2, <3>3
         DEF LogoutInv, Moved, InFlight, IsErasing, IssuesFullSession
  <2>3. CASE req[r].op = "accept"
    <3>1. Moved(r, req[r].op, "issue", req[r].token)
      BY <1>8, <2>3, GotoStep DEF RevokeSession
    <3>2. ~disturbed => consent # 0
      BY <1>b, <2>1, <2>3 DEF IssuesFullSession
    <3> QED
      BY <2>1, <2>3, <3>1, <3>2, QuietStep DEF IsErasing, InFlight
  <2>4. CASE req[r].op \notin {"accept", "delete"}
    <3>1. Moved(r, req[r].op, "done", req[r].token)
      BY <1>8, <2>4, GotoStep DEF RevokeSession
    <3> QED
      BY <2>1, <2>4, <3>1, QuietStep
         DEF IsErasing, InFlight, IssuesFullSession, FullSession
  <2> QED
    BY <2>2, <2>3, <2>4
<1>9. CASE DeleteLearnerData(r)
  <2>1. Moved(r, req[r].op, "revoke", req[r].token) /\ req[r].op = "delete"
    BY <1>9, GotoStep DEF DeleteLearnerData, At, LogoutInv
  <2>2. Erasing'
    BY <2>1 DEF Erasing, Moved
  <2>3. ~disturbed' => \A q \in Requests \ {r} : ~InFlight(q)'
    BY <1>9, <2>1 DEF DeleteLearnerData, InFlight, Moved
  <2>4. ~disturbed' => \A q \in Requests :
          /\ InFlight(q)' => IsErasing(req'[q].op, req'[q].pc)
          /\ ~IssuesFullSession(req'[q].op, req'[q].pc)
    BY <2>1, <2>3 DEF Moved, InFlight, IsErasing, IssuesFullSession
  <2>5. \A q \in Requests : req'[q].pc \in {"erase", "mark"} => req'[q].op = "delete"
    BY <2>1 DEF LogoutInv, Moved
  <2> QED
    BY <2>2, <2>4, <2>5 DEF LogoutInv
<1>10. CASE RevokeAllSessionsForUid(r)
  <2>1. Moved(r, req[r].op, "done", req[r].token) /\ req[r].op = "delete"
    BY <1>10, GotoStep DEF RevokeAllSessionsForUid, At, LogoutInv
  <2>2. Erasing /\ UNCHANGED <<consent, sessions>>
    BY <1>10, <2>1 DEF RevokeAllSessionsForUid, Erasing, At, stored
  <2>3. ~disturbed' => \A q \in Requests :
          /\ InFlight(q)' => IsErasing(req'[q].op, req'[q].pc)
          /\ ~IssuesFullSession(req'[q].op, req'[q].pc)
    <3>1. ~disturbed' => ~disturbed
      BY <1>10 DEF RevokeAllSessionsForUid
    <3>2. ~disturbed => \A q \in Requests :
            InFlight(q) => IsErasing(req[q].op, req[q].pc)
      BY <2>2 DEF LogoutInv
    <3> QED
      BY <2>1, <3>1, <3>2 DEF Moved, InFlight, IsErasing, IssuesFullSession
  <2>4. ~disturbed' => \A t \in Tokens : FullSession(t)' => t \in dead'
    <3>1. ASSUME NEW t \in Tokens, FullSession(t) PROVE t \in dead' \/ disturbed'
      <4>1. sessions[t].iat \in Nat /\ now \in Nat /\ sessions[t].iat <= now
        BY <3>1, AccountAssumption DEF TypeOK, Session, TokenInv, FullSession
      <4>2. CASE sessions[t].iat < now
        BY <1>10, <3>1, <4>2 DEF RevokeAllSessionsForUid, FullSession
      <4>3. CASE sessions[t].iat = now
        BY <1>10, <3>1, <4>3 DEF RevokeAllSessionsForUid, FullSession
      <4> QED
        BY <4>1, <4>2, <4>3
    <3> QED
      BY <2>2, <3>1 DEF FullSession
  <2>5. \A q \in Requests : req'[q].pc \in {"erase", "mark"} => req'[q].op = "delete"
    BY <2>1 DEF LogoutInv, Moved
  <2> QED
    BY <2>3, <2>4, <2>5 DEF LogoutInv
<1> QED
  BY <1>1, <1>2, <1>3, <1>4, <1>5, <1>6, <1>7, <1>8, <1>9, <1>10 DEF Step, Continue

\* As long as no erasure overlaps another request, fails halfway or shares its
\* second with another session's issue, an erasure signs the learner out
\* everywhere (index.js handleDelete, auth.js).
THEOREM LogoutHolds == Spec => []LoggedOutEverywhereUndisturbed
<1>1. Init => LogoutInv
  <2> SUFFICES ASSUME Init PROVE LogoutInv
    OBVIOUS
  <2>1. \A r \in Requests : req[r].pc = "idle"
    BY DEF Init, IdleHandler
  <2>2. ~accepted => \A t \in Tokens : ~sessions[t].issued
    BY DEF Init, NoSession
  <2>3. consent = 0 => ~accepted
    BY DEF Init
  <2> QED
    BY <2>1, <2>2, <2>3
       DEF LogoutInv, Erasing, IssuesFullSession, FullSession
<1>2. TypeOK /\ SignOutInv /\ SignedOutStaysOut /\ LogoutInv /\ [Next]_vars
      => LogoutInv'
  <2> SUFFICES ASSUME TypeOK, SignOutInv, SignedOutStaysOut, LogoutInv, [Next]_vars
               PROVE  LogoutInv'
    OBVIOUS
  <2>1. CASE Tick \/ PublishTerms \/ UNCHANGED vars
    BY <2>1 DEF Tick, PublishTerms, vars, stored, LogoutInv, Erasing, InFlight,
                FullSession
  <2> QED
    BY <2>1, NextCases, StepLogout DEF SignOutInv
<1>3. SignedOutStaysOut /\ LogoutInv => LoggedOutEverywhereUndisturbed
  BY DEF SignedOutStaysOut, LogoutInv, LoggedOutEverywhereUndisturbed,
         LoggedOutEverywhere, FullSession, Accepts, Valid
<1> QED
  BY <1>1, <1>2, <1>3, TypeCorrect, SignOutInvHolds, SignOutHolds, PTL DEF Spec
=============================================================================
