------------------------------- MODULE Account -------------------------------
(***************************************************************************)
(* One learner's account at the learn-api Worker: the consent row, the     *)
(* learner row and the records in D1, the stateless session tokens, and    *)
(* the revocation entries in KV, under concurrent requests.                *)
(*                                                                         *)
(* A request is authenticated in one step: the three reads of requireAuth  *)
(* see entries that only ever appear during a token's life, so the first   *)
(* of them is as permissive, and the last as strict, as any interleaving.  *)
(* After that every D1 or KV call is an action.  A token is named by the   *)
(* request that issued it.                                                 *)
(***************************************************************************)
EXTENDS Integers

CONSTANTS
    Requests,       \* ids of the requests a behavior serves, each used once
    FirstToken,     \* a session that exists before them
    Ops,            \* what the requests do, a subset of AllOps
    DefaultTTL,     \* DEFAULT_TTL_SECONDS
    PendingTTL,     \* PENDING_CONSENT_TTL_SECONDS
    RefreshWindow,  \* REFRESH_WINDOW_SECONDS
    MayFail,        \* TRUE: a D1 or KV call may fail and end its handler
    MaxTerms,       \* bound: terms versions published
    MaxNow          \* bound: seconds a behavior lasts

AllOps == {"signin", "accept", "decline", "logout", "me", "record", "delete",
           "approve"}

ASSUME AccountAssumption ==
    /\ FirstToken \notin Requests
    /\ Ops \subseteq AllOps
    /\ DefaultTTL \in Nat \ {0}
    /\ PendingTTL \in 1 .. DefaultTTL
    /\ RefreshWindow \in 0 .. DefaultTTL
    /\ MayFail \in BOOLEAN
    /\ MaxTerms \in Nat \ {0}
    /\ MaxNow \in Nat

Tokens == Requests \cup {FirstToken}

VARIABLES
    now,        \* nowSeconds()
    terms,      \* currentTermsVersion
    consent,    \* version on the most recent consents row, 0 for none
    learner,    \* [exists, approved] of the learners row
    records,    \* some records row exists
    sessions,   \* the tokens issued
    tombstone,  \* second at which KV drops revoked:<sid>, 0 for no entry
    marker,     \* revoked_uid:<uid>: its value, and when KV drops it
    req,        \* the in-flight state of every request's handler
    \* History variables: they never enable or disable a step.
    accepted,   \* the learner has accepted the terms at least once
    dead,       \* tokens that were signed out
    disturbed   \* an erasure overlapped another request, failed halfway, or
                \* fell in the second in which another session was issued

stored == <<consent, learner, records>>
kv     == <<tombstone, marker>>
vars   == <<now, terms, stored, sessions, kv, req, accepted, dead, disturbed>>

-----------------------------------------------------------------------------
(* State *)

Session == [issued : BOOLEAN, iat : Nat, exp : Nat, pending : BOOLEAN]

NoSession == [issued |-> FALSE, iat |-> 0, exp |-> 0, pending |-> FALSE]
NoLearner == [exists |-> FALSE, approved |-> FALSE]

Steps == {"idle", "consent", "insert", "record_consent", "upsert", "revoke",
          "issue", "refresh", "erase", "mark", "approve", "done"}

Handler == [op : AllOps \cup {"none"}, pc : Steps, token : Tokens]

IdleHandler == [op |-> "none", pc |-> "idle", token |-> FirstToken]

TypeOK ==
    /\ now \in 0 .. MaxNow
    /\ terms \in 1 .. MaxTerms
    /\ consent \in 0 .. MaxTerms
    /\ learner \in [exists : BOOLEAN, approved : BOOLEAN]
    /\ records \in BOOLEAN
    /\ sessions \in [Tokens -> Session]
    /\ tombstone \in [Tokens -> Nat]
    /\ marker \in [at : Nat, until : Nat]
    /\ req \in [Requests -> Handler]
    /\ accepted \in BOOLEAN
    /\ dead \subseteq Tokens
    /\ disturbed \in BOOLEAN

NewSession(ttl, pending) ==
    [issued |-> TRUE, iat |-> now, exp |-> now + ttl, pending |-> pending]

\* Nobody has signed in yet, or a learner has accepted and holds a session.
Init ==
    /\ now = 0
    /\ terms = 1
    /\ accepted \in BOOLEAN
    /\ consent = IF accepted THEN 1 ELSE 0
    /\ learner = [NoLearner EXCEPT !.exists = accepted]
    /\ records = FALSE
    /\ sessions = [t \in Tokens |->
                     IF t = FirstToken /\ accepted
                     THEN NewSession(DefaultTTL, FALSE) ELSE NoSession]
    /\ tombstone = [t \in Tokens |-> 0]
    /\ marker = [at |-> 0, until |-> 0]
    /\ req = [r \in Requests |-> IdleHandler]
    /\ dead = {}
    /\ disturbed = FALSE

-----------------------------------------------------------------------------
(* Helpers *)

At(r, pc) == req[r].pc = pc

InFlight(r) == req[r].pc \notin {"idle", "done"}

Goto(r, pc) == req' = [req EXCEPT ![r].pc = pc]

\* The handler of r starts with the given operation, token and first step.
Enter(r, op, t, pc) ==
    req' = [req EXCEPT ![r] = [op |-> op, pc |-> pc, token |-> t]]

\* verifySession, the sid's tombstone and the learner's marker, in that order.
Valid(t)   == sessions[t].issued /\ now < sessions[t].exp
Revoked(t) == \/ now < tombstone[t]
              \/ now < marker.until /\ sessions[t].iat < marker.at
Accepts(t) == Valid(t) /\ ~Revoked(t)

ConsentSatisfiesCurrentTerms == consent = terms

NeedsRefresh(t) == sessions[t].exp - now < RefreshWindow

\* An erasure has emptied D1 and not answered yet.
Erasing == \E r \in Requests : req[r].op = "delete" /\ req[r].pc \in {"revoke", "mark"}

\* A request arrives at a handler.
Arrival == disturbed' = (disturbed \/ Erasing)

-----------------------------------------------------------------------------
(* The environment *)

Tick ==
    /\ now < MaxNow
    /\ now' = now + 1
    /\ UNCHANGED <<terms, stored, sessions, kv, req, accepted, dead, disturbed>>

PublishTerms ==
    /\ terms < MaxTerms
    /\ terms' = terms + 1
    /\ UNCHANGED <<now, stored, sessions, kv, req, accepted, dead, disturbed>>

\* A D1 or KV call throws: the handler answers 500 and does nothing more.
Fail(r) ==
    /\ MayFail
    /\ InFlight(r)
    /\ Goto(r, "done")
    /\ disturbed' = (disturbed \/ req[r].op = "delete")
    /\ UNCHANGED <<now, terms, stored, sessions, kv, accepted, dead>>

-----------------------------------------------------------------------------
(* Gates *)

\* What requireAuth, isPendingConsent and needing consent leave of a request.
FirstStep(op, pending) ==
    CASE op = "accept"  -> "record_consent"
      [] op = "decline" -> IF pending THEN "revoke" ELSE "done"
      [] op = "logout"  -> "revoke"
      [] op = "me"      -> IF pending THEN "done" ELSE "refresh"
      [] op = "record"  -> IF pending THEN "done" ELSE "consent"
      [] op = "delete"  -> "erase"

RequireAuth(r, op, t) ==
    /\ At(r, "idle")
    /\ op \notin {"signin", "approve"}
    /\ sessions[t].issued
    /\ Enter(r, op, t, IF Accepts(t) THEN FirstStep(op, sessions[t].pending)
                       ELSE "done")
    /\ Arrival
    /\ UNCHANGED <<now, terms, stored, sessions, kv, accepted, dead>>

\* The consent read of requireConsented.
RequireConsented(r) ==
    /\ At(r, "consent") /\ req[r].op = "record"
    /\ Goto(r, IF ConsentSatisfiesCurrentTerms THEN "insert" ELSE "done")
    /\ UNCHANGED <<now, terms, stored, sessions, kv, accepted, dead, disturbed>>

-----------------------------------------------------------------------------
(* Sign-in and consent *)

\* Mutant: sign-in writes the learner row before it knows of a consent.
SignInUpserts(r) ==
    /\ At(r, "idle")
    /\ Enter(r, "signin", FirstToken, "upsert")
    /\ Arrival
    /\ UNCHANGED <<now, terms, stored, sessions, kv, accepted, dead>>

\* The web callback and the device poll, once GitHub has named the user.
SignIn(r) ==
    /\ At(r, "idle")
    /\ \/ /\ ConsentSatisfiesCurrentTerms
          /\ Enter(r, "signin", FirstToken, "upsert")
          /\ UNCHANGED sessions
       \/ /\ ~ConsentSatisfiesCurrentTerms
          /\ Enter(r, "signin", FirstToken, "done")
          /\ sessions' = [sessions EXCEPT ![r] = NewSession(PendingTTL, TRUE)]
    /\ Arrival
    /\ UNCHANGED <<now, terms, stored, kv, accepted, dead>>

\* Mutant: counts acceptances where the accepted version belongs.
RecordNextConsent(r) ==
    /\ At(r, "record_consent")
    /\ consent' = consent + 1
    /\ accepted' = TRUE
    /\ Goto(r, "upsert")
    /\ UNCHANGED <<now, terms, learner, records, sessions, kv, dead, disturbed>>

RecordConsent(r) ==
    /\ At(r, "record_consent")
    /\ consent' = terms
    /\ accepted' = TRUE
    /\ Goto(r, "upsert")
    /\ UNCHANGED <<now, terms, learner, records, sessions, kv, dead, disturbed>>

UpsertLearner(r) ==
    /\ At(r, "upsert")
    /\ learner' = [learner EXCEPT !.exists = TRUE]
    /\ Goto(r, IF req[r].op = "accept" THEN "revoke" ELSE "issue")
    /\ UNCHANGED <<now, terms, consent, records, sessions, kv, accepted, dead,
                   disturbed>>

IssueSession(r) ==
    /\ At(r, "issue")
    /\ sessions' = [sessions EXCEPT ![r] = NewSession(DefaultTTL, FALSE)]
    /\ Goto(r, "done")
    /\ UNCHANGED <<now, terms, stored, kv, accepted, dead, disturbed>>

\* Mutant: the tombstone lives only as long as a pending token.
RevokeSessionBriefly(r) ==
    /\ At(r, "revoke")
    /\ tombstone' = [tombstone EXCEPT ![req[r].token] = now + PendingTTL]
    /\ dead' = dead \cup {req[r].token}
    /\ Goto(r, CASE req[r].op = "accept" -> "issue"
                 [] req[r].op = "delete" -> "mark"
                 [] OTHER                -> "done")
    /\ UNCHANGED <<now, terms, stored, sessions, marker, accepted, disturbed>>

\* The tombstone outlives the token; accept and delete then go on.
RevokeSession(r) ==
    /\ At(r, "revoke")
    /\ tombstone' = [tombstone EXCEPT ![req[r].token] = now + 2 * DefaultTTL]
    /\ dead' = dead \cup {req[r].token}
    /\ Goto(r, CASE req[r].op = "accept" -> "issue"
                 [] req[r].op = "delete" -> "mark"
                 [] OTHER                -> "done")
    /\ UNCHANGED <<now, terms, stored, sessions, marker, accepted, disturbed>>

\* handleMe for a full session: a token about to expire is issued anew.
Refresh(r) ==
    /\ At(r, "refresh")
    /\ sessions' = IF NeedsRefresh(req[r].token)
                   THEN [sessions EXCEPT ![r] = NewSession(DefaultTTL, FALSE)]
                   ELSE sessions
    /\ Goto(r, "done")
    /\ UNCHANGED <<now, terms, stored, kv, accepted, dead, disturbed>>

-----------------------------------------------------------------------------
(* Records, erasure, approval *)

\* The foreign key refuses a record of a learner without a row.
InsertRecord(r) ==
    /\ At(r, "insert")
    /\ records' = (records \/ learner.exists)
    /\ Goto(r, "done")
    /\ UNCHANGED <<now, terms, consent, learner, sessions, kv, accepted, dead,
                   disturbed>>

\* Mutant: the erasing batch forgets the learner row.
DeleteAllButLearner(r) ==
    /\ At(r, "erase")
    /\ consent' = 0
    /\ records' = FALSE
    /\ Goto(r, "revoke")
    /\ disturbed' = (disturbed \/ \E q \in Requests \ {r} : InFlight(q))
    /\ UNCHANGED <<now, terms, learner, sessions, kv, accepted, dead>>

DeleteLearnerData(r) ==
    /\ At(r, "erase")
    /\ consent' = 0
    /\ learner' = NoLearner
    /\ records' = FALSE
    /\ Goto(r, "revoke")
    /\ disturbed' = (disturbed \/ \E q \in Requests \ {r} : InFlight(q))
    /\ UNCHANGED <<now, terms, sessions, kv, accepted, dead>>

\* Mutant: the marker takes the erasing token's issue time for the present.
RevokeOlderSessions(r) ==
    /\ At(r, "mark")
    /\ marker' = [at |-> sessions[req[r].token].iat, until |-> now + 2 * DefaultTTL]
    /\ dead' = dead \cup {t \in Tokens : sessions[t].issued /\ sessions[t].iat < now}
    /\ disturbed' = (disturbed \/ \E t \in Tokens \ dead :
                                    sessions[t].issued /\ sessions[t].iat = now)
    /\ Goto(r, "done")
    /\ UNCHANGED <<now, terms, stored, sessions, tombstone, accepted>>

RevokeAllSessionsForUid(r) ==
    /\ At(r, "mark")
    /\ marker' = [at |-> now, until |-> now + 2 * DefaultTTL]
    /\ dead' = dead \cup {t \in Tokens : sessions[t].issued /\ sessions[t].iat < now}
    /\ disturbed' = (disturbed \/ \E t \in Tokens \ dead :
                                    sessions[t].issued /\ sessions[t].iat = now)
    /\ Goto(r, "done")
    /\ UNCHANGED <<now, terms, stored, sessions, tombstone, accepted>>

\* An admin's approve of this learner, from its lookup of the learner.
RequireKnownLearner(r) ==
    /\ At(r, "idle")
    /\ Enter(r, "approve", FirstToken, IF learner.exists THEN "consent" ELSE "done")
    /\ Arrival
    /\ UNCHANGED <<now, terms, stored, sessions, kv, accepted, dead>>

\* No approval without a current consent.
RequireCurrentConsent(r) ==
    /\ At(r, "consent") /\ req[r].op = "approve"
    /\ Goto(r, IF ConsentSatisfiesCurrentTerms THEN "approve" ELSE "done")
    /\ UNCHANGED <<now, terms, stored, sessions, kv, accepted, dead, disturbed>>

SetLearnerApproved(r) ==
    /\ At(r, "approve")
    /\ learner' = [learner EXCEPT !.approved = learner.exists]
    /\ Goto(r, "done")
    /\ UNCHANGED <<now, terms, consent, records, sessions, kv, accepted, dead,
                   disturbed>>

-----------------------------------------------------------------------------

Arrive(r) ==
    \/ \E op \in Ops, t \in Tokens : RequireAuth(r, op, t)
    \/ "signin" \in Ops /\ SignIn(r)
    \/ "approve" \in Ops /\ RequireKnownLearner(r)

Continue(r) ==
    \/ RequireConsented(r)
    \/ RecordConsent(r)
    \/ UpsertLearner(r)
    \/ IssueSession(r)
    \/ RevokeSession(r)
    \/ Refresh(r)
    \/ InsertRecord(r)
    \/ DeleteLearnerData(r)
    \/ RevokeAllSessionsForUid(r)
    \/ RequireCurrentConsent(r)
    \/ SetLearnerApproved(r)

Next ==
    \/ Tick
    \/ PublishTerms
    \/ \E r \in Requests : Arrive(r) \/ Continue(r) \/ Fail(r)

Spec == Init /\ [][Next]_vars

-----------------------------------------------------------------------------
(* Properties *)

Stored == learner.exists \/ records

\* A token that was signed out - by logout, decline, accept's upgrade, or an
\* erasure in a later second - is never accepted again: the KV entries outlive
\* every token they must catch.
SignedOutStaysOut == \A t \in dead : ~Accepts(t)

\* A visitor who never accepts leaves no trace and never holds a full session,
\* whatever is declined, erased, approved or retried.
ZeroTraceUntilAccepted ==
    ~accepted =>
      /\ consent = 0 /\ ~Stored
      /\ \A t \in Tokens : sessions[t].issued => sessions[t].pending

\* The consent row comes first and leaves last: nothing else is stored for a
\* learner without one.
NothingWithoutConsent == Stored => consent # 0

NothingWithoutConsentUndisturbed == ~disturbed => NothingWithoutConsent

\* Erasure signs the learner out everywhere: once it has answered, only a new
\* consent gives a full session.  (A session issued in the erasure's own second
\* is spared on purpose.)
LoggedOutEverywhere ==
    ~Erasing =>
      \A t \in Tokens :
        /\ Accepts(t) /\ ~sessions[t].pending
        /\ marker.until = 0 \/ sessions[t].iat # marker.at
        => consent # 0

LoggedOutEverywhereUndisturbed == ~disturbed => LoggedOutEverywhere
=============================================================================
