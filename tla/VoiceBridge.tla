---------------------------- MODULE VoiceBridge ----------------------------
(***************************************************************************)
(* infra/voice_bridge: one Lambda that is both the router of a WebSocket   *)
(* API ($connect, $default, $disconnect) and, invoked asynchronously by    *)
(* itself, the holder that keeps a Bedrock stream open for a session.  The *)
(* two modes meet in one DynamoDB table: a metadata row per session, which *)
(* is also the slot the concurrency cap counts, and the rows of the audio  *)
(* frames on their way to the model.                                       *)
(*                                                                         *)
(* Every table operation is a step of its own, so invocations interleave   *)
(* between them.  Lambda's asynchronous invoke is taken as it is: at least *)
(* once, retried after a failure, and killed at the function's timeout.    *)
(***************************************************************************)
EXTENDS Integers, Sequences, FiniteSets

CONSTANTS
    Conns,          \* connection ids; API Gateway never reuses one
    Talkers,        \* the connections whose audio is followed
    Tokens,         \* the tokens a client may show: [signed, scope, approved, exp]
    MaxConcurrent,  \* MAX_CONCURRENT_VOICE_SESSIONS
    MaxSession,     \* MAX_SESSION_SECONDS, in ticks
    Grace,          \* _TTL_GRACE_SECONDS, in ticks
    Timeout,        \* the Lambda's own timeout, in ticks
    Redelivered,    \* the connections whose launch may be delivered twice
    MaxFrames,      \* bound: frames a client sends
    Horizon,        \* bound: the last tick
    NoToken

\* The template keeps the timeout (360 s) below the row's grace (3600 s).
ASSUME BridgeAssumption ==
    /\ IsFiniteSet(Conns)
    /\ Talkers \subseteq Conns /\ Redelivered \subseteq Conns
    /\ Tokens \subseteq [signed : BOOLEAN, scope : {"voice", "session"},
                         approved : BOOLEAN, exp : Nat]
    /\ NoToken \notin Tokens
    /\ {MaxConcurrent, MaxSession, Grace, Timeout, Horizon} \subseteq Nat
    /\ MaxFrames \in Nat
    /\ Timeout < Grace

VARIABLES
    now,          \* the clock every invocation reads
    conn,         \* the socket of a connection and its $connect invocation
    tok,          \* the token a connection passed the gate with
    deadline,     \* the end of a connection's session, fixed at the gate
    row,          \* expires_at of the session's metadata row; 0: no row
    launched,     \* connections whose launch event Lambda has accepted
    delivered,    \* how often a launch has been delivered
    holder,       \* phase of the invocation serving a delivery
    killAt,       \* when Lambda kills that invocation; 0: it is not running
    spoken,       \* frames a client has sent
    inflight,     \* frames whose $default invocation saw the row
    frames,       \* frames stored in the table
    batch,        \* frames a holder took out of the table
    sent,         \* frames passed on to the model, in order
    overtaken,    \* history: frames stored after a later one was taken
    disturbed     \* history: what has gone wrong around the cap

socketVars == <<conn, tok, deadline>>
launchVars == <<launched, delivered, holder, killAt>>
audioVars == <<spoken, inflight, frames, batch, sent, overtaken>>
vars == <<now, socketVars, row, launchVars, audioVars, disturbed>>

Deliveries(c) == IF c \in Redelivered THEN 2 ELSE 1
Holders == {h \in Conns \X (1..2) : h[2] <= Deliveries(h[1])}
Conn(h) == h[1]
Talking == {"streaming", "taken", "sending"}
Live == Talking \cup {"opening", "cleaning"}
Phases == Live \cup {"none", "over"}
Sockets == {"out", "counted", "put", "up", "closing", "gone"}
Hazards == {"stale count", "orphan", "redelivery", "late launch"}

TypeOK ==
    /\ now \in 0..Horizon
    /\ conn \in [Conns -> Sockets]
    /\ tok \in [Conns -> Tokens \cup {NoToken}]
    /\ deadline \in [Conns -> Nat]
    /\ row \in [Conns -> Nat]
    /\ launched \subseteq Conns
    /\ delivered \in [Conns -> 0..2]
    /\ holder \in [Holders -> Phases]
    /\ killAt \in [Holders -> Nat]
    /\ spoken \in [Talkers -> 0..MaxFrames]
    /\ inflight \in [Talkers -> SUBSET (1..MaxFrames)]
    /\ frames \in [Talkers -> SUBSET (1..MaxFrames)]
    /\ batch \in [Holders -> SUBSET (1..MaxFrames)]
    /\ sent \in [Talkers -> Seq(1..MaxFrames)]
    /\ overtaken \in [Talkers -> SUBSET (1..MaxFrames)]
    /\ disturbed \subseteq Hazards

-----------------------------------------------------------------------------
\* The gate's reads

\* Mutant: a token that says nothing of approval is good enough.
VerifyWithoutApproval(t) ==
    t.signed /\ t.scope = "voice" /\ t.exp > now

\* tokens.py: signature, scope, approval and expiry, all or nothing.
VerifyVoiceToken(t) ==
    t.signed /\ t.scope = "voice" /\ t.approved /\ t.exp > now

\* Mutant: every row counts, however old.
RowsOfAnyAge == {c \in Conns : row[c] > 0}

\* The rows the cap counts: not yet expired.
ActiveRows == {c \in Conns : row[c] > now}

\* Mutant: the filter's comparison the wrong way round.
CountExpired == Cardinality({c \in Conns : row[c] \in 1..now})

CountActive == Cardinality(ActiveRows)

Streams == {h \in Holders : holder[h] \in Talking}
LiveHolders == {h \in Holders : holder[h] \in Live}

-----------------------------------------------------------------------------
\* $connect

Unauthorised(c, t) ==
    /\ conn[c] = "out"
    /\ ~VerifyVoiceToken(t)
    /\ conn' = [conn EXCEPT ![c] = "gone"]
    /\ UNCHANGED <<now, tok, deadline, row, launchVars, audioVars, disturbed>>

\* The token is verified and the active rows are counted, in that order; the
\* deadline is fixed from the same reading of the clock.
Connect(c, t) ==
    /\ conn[c] = "out"
    /\ VerifyVoiceToken(t)
    /\ now + MaxSession + Grace <= Horizon
    /\ IF CountActive >= MaxConcurrent
       THEN /\ conn' = [conn EXCEPT ![c] = "gone"]
            /\ UNCHANGED <<tok, deadline>>
       ELSE /\ conn' = [conn EXCEPT ![c] = "counted"]
            /\ tok' = [tok EXCEPT ![c] = t]
            /\ deadline' = [deadline EXCEPT ![c] = now + MaxSession]
    /\ UNCHANGED <<now, row, launchVars, audioVars, disturbed>>

\* Mutant: the grace taken off the deadline.
PutSessionEarly(c) ==
    /\ conn[c] = "counted"
    /\ conn' = [conn EXCEPT ![c] = "put"]
    /\ row' = [row EXCEPT ![c] = deadline[c] - Grace]
    /\ UNCHANGED <<now, tok, deadline, launchVars, audioVars, disturbed>>

PutSession(c) ==
    /\ conn[c] = "counted"
    /\ conn' = [conn EXCEPT ![c] = "put"]
    /\ row' = [row EXCEPT ![c] = deadline[c] + Grace]
    /\ disturbed' = IF CountActive >= MaxConcurrent
                    THEN disturbed \cup {"stale count"} ELSE disturbed
    /\ UNCHANGED <<now, tok, deadline, launchVars, audioVars>>

\* The asynchronous self-invoke.  When it raises, or its answer is lost, the
\* upgrade is refused and nothing takes the row back.
LaunchSession(c) ==
    /\ conn[c] = "put"
    /\ \E accepted, answered \in BOOLEAN :
        /\ launched' = IF accepted THEN launched \cup {c} ELSE launched
        /\ conn' = [conn EXCEPT ![c] =
                        IF accepted /\ answered THEN "up" ELSE "gone"]
    /\ UNCHANGED <<now, tok, deadline, row, delivered, holder, killAt,
                   audioVars, disturbed>>

-----------------------------------------------------------------------------
\* $default and $disconnect

\* get_session finds the row, or the frame is refused.
FrameArrives(c) ==
    /\ conn[c] = "up"
    /\ spoken[c] < MaxFrames
    /\ spoken' = [spoken EXCEPT ![c] = @ + 1]
    /\ inflight' = IF row[c] > 0
                   THEN [inflight EXCEPT ![c] = @ \cup {spoken[c] + 1}]
                   ELSE inflight
    /\ UNCHANGED <<now, socketVars, row, launchVars, frames, batch, sent,
                   overtaken, disturbed>>

\* Frames already taken from the table: sent, or in some holder's batch.
Taken(c) ==
    {sent[c][i] : i \in 1..Len(sent[c])}
        \cup UNION {batch[h] : h \in {g \in Holders : Conn(g) = c}}

StoreFrame(c) ==
    /\ \E f \in inflight[c] :
        /\ inflight' = [inflight EXCEPT ![c] = @ \ {f}]
        /\ frames' = [frames EXCEPT ![c] = @ \cup {f}]
        /\ overtaken' = IF \E g \in Taken(c) : g > f
                        THEN [overtaken EXCEPT ![c] = @ \cup {f}]
                        ELSE overtaken
    /\ UNCHANGED <<now, socketVars, row, launchVars, spoken, batch, sent,
                   disturbed>>

HangUp(c) ==
    /\ conn[c] = "up"
    /\ conn' = [conn EXCEPT ![c] = "closing"]
    /\ UNCHANGED <<now, tok, deadline, row, launchVars, audioVars, disturbed>>

Unserved(c) == c \in launched /\ delivered[c] = 0
Served(c) == \E h \in LiveHolders : Conn(h) = c /\ holder[h] # "cleaning"

\* The row goes, and with it the slot, whatever the holder is doing.
Disconnect(c) ==
    /\ conn[c] = "closing"
    /\ conn' = [conn EXCEPT ![c] = "gone"]
    /\ row' = [row EXCEPT ![c] = 0]
    /\ disturbed' = IF Unserved(c) \/ Served(c)
                    THEN disturbed \cup {"orphan"} ELSE disturbed
    /\ UNCHANGED <<now, tok, deadline, launchVars, audioVars>>

-----------------------------------------------------------------------------
\* Session mode

\* Lambda starts a holder for a launch event, possibly not the first.
Deliver(c) ==
    /\ c \in launched
    /\ delivered[c] < Deliveries(c)
    /\ now + Timeout <= Horizon
    /\ LET h == <<c, delivered[c] + 1>> IN
        /\ delivered' = [delivered EXCEPT ![c] = @ + 1]
        /\ holder' = [holder EXCEPT ![h] = "opening"]
        /\ killAt' = [killAt EXCEPT ![h] = now + Timeout]
    /\ disturbed' = disturbed
        \cup (IF delivered[c] > 0 THEN {"redelivery"} ELSE {})
        \cup (IF now > deadline[c] THEN {"late launch"} ELSE {})
    /\ UNCHANGED <<now, socketVars, row, launched, audioVars>>

Become(h, phase) == holder' = [holder EXCEPT ![h] = phase]

\* open_stream, then the setup events of the pump.
OpenStream(h) ==
    /\ holder[h] = "opening"
    /\ Become(h, "streaming")
    /\ UNCHANGED <<now, socketVars, row, launched, delivered, killAt,
                   audioVars, disturbed>>

OpenFails(h) ==
    /\ holder[h] = "opening"
    /\ Become(h, "cleaning")
    /\ UNCHANGED <<now, socketVars, row, launched, delivered, killAt,
                   audioVars, disturbed>>

\* consume_frames: the query ...
TakeFrames(h) ==
    /\ holder[h] = "streaming"
    /\ now < deadline[Conn(h)]
    /\ Conn(h) \in Talkers /\ frames[Conn(h)] # {}
    /\ batch' = [batch EXCEPT ![h] = frames[Conn(h)]]
    /\ Become(h, "taken")
    /\ UNCHANGED <<now, socketVars, row, launched, delivered, killAt, spoken,
                   inflight, frames, sent, overtaken, disturbed>>

\* ... and the deletes.
ClearFrames(h) ==
    /\ holder[h] = "taken"
    /\ frames' = [frames EXCEPT ![Conn(h)] = @ \ batch[h]]
    /\ Become(h, "sending")
    /\ UNCHANGED <<now, socketVars, row, launched, delivered, killAt, spoken,
                   inflight, batch, sent, overtaken, disturbed>>

\* Mutant: sorted the other way round.
LastFrame(h) == CHOOSE f \in batch[h] : \A g \in batch[h] : f >= g

\* order_frames: by the client's number, within the batch.
NextFrame(h) == CHOOSE f \in batch[h] : \A g \in batch[h] : f <= g

SendFrame(h) ==
    /\ holder[h] = "sending"
    /\ batch[h] # {}
    /\ sent' = [sent EXCEPT ![Conn(h)] = Append(@, NextFrame(h))]
    /\ batch' = [batch EXCEPT ![h] = @ \ {NextFrame(h)}]
    /\ Become(h, IF batch[h] = {NextFrame(h)} THEN "streaming" ELSE "sending")
    /\ UNCHANGED <<now, socketVars, row, launched, delivered, killAt, spoken,
                   inflight, frames, overtaken, disturbed>>

\* The pump leaves its loop at the deadline, looked at before each batch, or
\* when the model closes the stream; it closes its own end on the way out.
DeadlineReached(h) ==
    /\ holder[h] = "streaming"
    /\ now >= deadline[Conn(h)]
    /\ Become(h, "cleaning")
    /\ UNCHANGED <<now, socketVars, row, launched, delivered, killAt,
                   audioVars, disturbed>>

StreamClosed(h) ==
    /\ holder[h] = "streaming"
    /\ now < deadline[Conn(h)]
    /\ Become(h, "cleaning")
    /\ UNCHANGED <<now, socketVars, row, launched, delivered, killAt,
                   audioVars, disturbed>>

\* An event that cannot be sent upstream, or posted to a client that left,
\* raises out of the loop; what was left of the batch is lost.
PumpRaises(h) ==
    /\ holder[h] \in Talking
    /\ Become(h, "cleaning")
    /\ batch' = [batch EXCEPT ![h] = {}]
    /\ UNCHANGED <<now, socketVars, row, launched, delivered, killAt, spoken,
                   inflight, frames, sent, overtaken, disturbed>>

\* _run_session's finally: the row goes first, then the connection.
CleanUp(h) ==
    /\ holder[h] = "cleaning"
    /\ Become(h, "over")
    /\ row' = [row EXCEPT ![Conn(h)] = 0]
    /\ conn' = [conn EXCEPT ![Conn(h)] = IF @ = "up" THEN "closing" ELSE @]
    /\ killAt' = [killAt EXCEPT ![h] = 0]
    /\ UNCHANGED <<now, tok, deadline, launched, delivered, audioVars, disturbed>>

Die(h) ==
    /\ holder[h] \in Live
    /\ Become(h, "over")
    /\ killAt' = [killAt EXCEPT ![h] = 0]
    /\ batch' = [batch EXCEPT ![h] = {}]
    /\ UNCHANGED <<now, socketVars, row, launched, delivered, spoken, inflight,
                   frames, sent, overtaken, disturbed>>

LambdaTimeout(h) == now >= killAt[h] /\ Die(h)
Crash(h) == now < killAt[h] /\ Die(h)

-----------------------------------------------------------------------------
\* DynamoDB drops an expired row some time after it expired.
Purge(c) ==
    /\ row[c] \in 1..now
    /\ row' = [row EXCEPT ![c] = 0]
    /\ UNCHANGED <<now, socketVars, launchVars, audioVars, disturbed>>

\* No invocation outlives its timeout.
Tick ==
    /\ now < Horizon
    /\ \A h \in LiveHolders : now < killAt[h]
    /\ now' = now + 1
    /\ UNCHANGED <<socketVars, row, launchVars, audioVars, disturbed>>

Init ==
    /\ now = 0
    /\ conn = [c \in Conns |-> "out"]
    /\ tok = [c \in Conns |-> NoToken]
    /\ deadline = [c \in Conns |-> 0]
    /\ row = [c \in Conns |-> 0]
    /\ launched = {}
    /\ delivered = [c \in Conns |-> 0]
    /\ holder = [h \in Holders |-> "none"]
    /\ killAt = [h \in Holders |-> 0]
    /\ spoken = [c \in Talkers |-> 0]
    /\ inflight = [c \in Talkers |-> {}]
    /\ frames = [c \in Talkers |-> {}]
    /\ batch = [h \in Holders |-> {}]
    /\ sent = [c \in Talkers |-> <<>>]
    /\ overtaken = [c \in Talkers |-> {}]
    /\ disturbed = {}

Router ==
    \/ \E c \in Conns, t \in Tokens : Unauthorised(c, t) \/ Connect(c, t)
    \/ \E c \in Conns :
        \/ PutSession(c) \/ LaunchSession(c) \/ HangUp(c) \/ Disconnect(c)
    \/ \E c \in Talkers : FrameArrives(c) \/ StoreFrame(c)

Session ==
    \/ \E c \in Conns : Deliver(c)
    \/ \E h \in Holders :
        \/ OpenStream(h) \/ OpenFails(h)
        \/ TakeFrames(h) \/ ClearFrames(h) \/ SendFrame(h)
        \/ DeadlineReached(h) \/ StreamClosed(h) \/ PumpRaises(h) \/ CleanUp(h)
        \/ Crash(h)

\* What the platform does whatever the bridge's code does.
Elapse == Tick \/ \E h \in Holders : LambdaTimeout(h)

Next == Router \/ Session \/ Elapse \/ \E c \in Conns : Purge(c)

Spec == Init /\ [][Next]_vars

\* Time passes, and Lambda enforces its timeout; nothing is assumed of the
\* bridge's own code.
FairSpec == Spec /\ WF_vars(Elapse)

-----------------------------------------------------------------------------
\* Properties

\* config.py and the template call MAX_CONCURRENT_VOICE_SESSIONS a hard cap on
\* simultaneous sessions that bounds the burn rate: never more model streams.
StreamsWithinCap == Cardinality(Streams) <= MaxConcurrent

\* The cap does hold as long as no connect is admitted on a count that went
\* stale, no slot is freed under a running holder, no launch is delivered
\* twice and none is delivered after its session's deadline.
StreamsWithinCapUnlessDisturbed == disturbed = {} => StreamsWithinCap

\* A connection served by one holder has each frame passed on at most once
\* and in the client's order, except a frame stored after a later one had
\* already been taken from the table (order_frames sorts one batch only).
AudioOnceInOrder ==
    \A c \in Talkers : delivered[c] <= 1 =>
        \A i, j \in 1..Len(sent[c]) : i < j =>
            \/ sent[c][i] < sent[c][j]
            \/ sent[c][i] > sent[c][j] /\ sent[c][j] \in overtaken[c]

\* "Only THIS path ever opens a Bedrock connection, and it is only reachable
\* after a token verified" (handler.py): the bridge implements VoiceGate,
\* with the token a connection was admitted with as its badge.
GenuineVoice(t) == t.signed /\ t.scope = "voice" /\ t.approved

StreamsOf(c) == Cardinality({h \in Streams : Conn(h) = c})

Gate == INSTANCE VoiceGate
    WITH badge <- tok,
         streams <- [c \in Conns |-> StreamsOf(c)],
         Genuine <- GenuineVoice

GateIsTheOnlyEntry == Gate!Spec

\* A crashed holder, a launch that failed or a $disconnect that never came
\* cannot pin the cap: every slot is counted for a while only.
SlotsComeBack == \A c \in Conns : row[c] > now ~> c \notin ActiveRows
=============================================================================
