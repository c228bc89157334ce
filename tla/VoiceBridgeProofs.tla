------------------------- MODULE VoiceBridgeProofs -------------------------
(***************************************************************************)
(* VoiceBridge for every set of connections and tokens and every cap,      *)
(* session length, grace and timeout: typing, the gate as the only way to  *)
(* the model, the concurrency cap as far as it holds, the order of the     *)
(* audio, and for how long a slot is counted.                              *)
(***************************************************************************)
EXTENDS VoiceBridge, FiniteSetTheorems, WellFoundedInduction,
        SequenceTheorems, TLAPS

LEMMA Constants ==
    /\ MaxConcurrent \in Nat /\ MaxSession \in Nat /\ Grace \in Nat
    /\ Timeout \in Nat /\ Horizon \in Nat /\ MaxFrames \in Nat
    /\ Timeout < Grace
    /\ Talkers \subseteq Conns
  BY BridgeAssumption

LEMMA HoldersType ==
    /\ \A h \in Holders : h = <<Conn(h), h[2]>> /\ Conn(h) \in Conns
                           /\ h[2] \in 1..2 /\ h[2] <= Deliveries(Conn(h))
    /\ \A c \in Conns, i \in 1..2 : i <= Deliveries(c) => <<c, i>> \in Holders
    /\ \A c \in Conns, i \in 1..2 : Conn(<<c, i>>) = c
    /\ \A c \in Conns : Deliveries(c) \in 1..2
  BY DEF Holders, Conn, Deliveries

LEMMA LeastElement ==
    ASSUME NEW S \in SUBSET Nat, S # {}
    PROVE  \E f \in S : \A g \in S : f <= g
<1>1. PICK f \in S : \A g \in S : ~(<<g, f>> \in OpToRel(<, Nat))
  BY WFMin, NatLessThanWellFounded, Zenon
<1>2. \A g \in S : ~(g < f)
  BY <1>1, Zenon DEF OpToRel
<1> QED
  BY <1>2

\* A holder that may send has a first frame to send.
LEMMA NextFrameIsFirst ==
    ASSUME TypeOK, NEW h \in Holders, batch[h] # {}
    PROVE  /\ NextFrame(h) \in batch[h]
           /\ \A g \in batch[h] : NextFrame(h) <= g
<1>1. batch[h] \in SUBSET Nat
  BY Constants DEF TypeOK
<1>2. \E f \in batch[h] : \A g \in batch[h] : f <= g
  BY <1>1, LeastElement
<1> QED
  BY <1>2 DEF NextFrame

-----------------------------------------------------------------------------
(* Types *)

LEMMA NextCases ==
    ASSUME [Next]_vars
    PROVE  \/ \E c \in Conns, t \in Tokens : Unauthorised(c, t)
           \/ \E c \in Conns, t \in Tokens : Connect(c, t)
           \/ \E c \in Conns : \/ PutSession(c) \/ LaunchSession(c)
                               \/ HangUp(c) \/ Disconnect(c) \/ Purge(c)
                               \/ Deliver(c)
           \/ \E c \in Talkers : FrameArrives(c) \/ StoreFrame(c)
           \/ \E h \in Holders : \/ OpenStream(h) \/ OpenFails(h)
                                 \/ TakeFrames(h) \/ ClearFrames(h)
                                 \/ SendFrame(h) \/ PumpRaises(h)
                                 \/ DeadlineReached(h) \/ StreamClosed(h)
                                 \/ CleanUp(h) \/ Die(h)
           \/ Tick
           \/ UNCHANGED vars
  BY DEF Next, Router, Session, Elapse, LambdaTimeout, Crash

\* A step that only moves a holder keeps the types.
LEMMA BecomeType ==
    ASSUME TypeOK, NEW h \in Holders, NEW phase \in Phases, Become(h, phase)
    PROVE  holder' \in [Holders -> Phases]
  BY DEF TypeOK, Become

LEMMA InitTypeOK == Init => TypeOK
<1> SUFFICES ASSUME Init PROVE TypeOK
  OBVIOUS
<1>1. sent \in [Talkers -> Seq(1..MaxFrames)]
  BY DEF Init
<1> QED
  BY <1>1, Constants DEF Init, TypeOK, Sockets, Phases

LEMMA NextTypeOK == TypeOK /\ [Next]_vars => TypeOK'
<1> SUFFICES ASSUME TypeOK, [Next]_vars PROVE TypeOK'
  OBVIOUS
<1> USE Constants
<1>1. ASSUME NEW c \in Conns, NEW t \in Tokens, Unauthorised(c, t) PROVE TypeOK'
  BY <1>1 DEF Unauthorised, TypeOK, Sockets, launchVars, audioVars
<1>1a. ASSUME NEW c \in Conns, NEW t \in Tokens, Connect(c, t) PROVE TypeOK'
  <2>1. now + MaxSession \in Nat
    BY DEF TypeOK
  <2>2. conn' \in [Conns -> Sockets]
    <3>1. \/ conn' = [conn EXCEPT ![c] = "gone"]
          \/ conn' = [conn EXCEPT ![c] = "counted"]
      BY <1>1a DEF Connect
    <3> QED
      BY <3>1 DEF TypeOK, Sockets
  <2>3. tok' \in [Conns -> Tokens \cup {NoToken}] /\ deadline' \in [Conns -> Nat]
    BY <1>1a, <2>1, ZenonT(30) DEF Connect, TypeOK
  <2> QED
    BY <1>1a, <2>2, <2>3 DEF Connect, TypeOK, launchVars, audioVars
<1>2. ASSUME NEW c \in Conns, PutSession(c) PROVE TypeOK'
  <2>1. disturbed' \subseteq Hazards
    BY <1>2 DEF PutSession, TypeOK, Hazards
  <2>2. deadline[c] + Grace \in Nat
    BY DEF TypeOK
  <2>3. row' \in [Conns -> Nat]
    BY <1>2, <2>2 DEF PutSession, TypeOK
  <2>4. conn' \in [Conns -> Sockets]
    BY <1>2 DEF PutSession, TypeOK, Sockets
  <2> QED
    BY <1>2, <2>1, <2>3, <2>4 DEF PutSession, TypeOK, launchVars, audioVars
<1>2a. ASSUME NEW c \in Conns, LaunchSession(c) PROVE TypeOK'
  BY <1>2a DEF LaunchSession, TypeOK, Sockets, audioVars
<1>3. ASSUME NEW c \in Conns, HangUp(c) PROVE TypeOK'
  BY <1>3 DEF HangUp, TypeOK, Sockets, launchVars, audioVars
<1>3b. ASSUME NEW c \in Conns, Purge(c) PROVE TypeOK'
  BY <1>3b DEF Purge, TypeOK, socketVars, launchVars, audioVars
<1>3a. ASSUME NEW c \in Conns, Disconnect(c) PROVE TypeOK'
  <2>1. disturbed' \subseteq Hazards
    BY <1>3a DEF Disconnect, TypeOK, Hazards
  <2>2. row' \in [Conns -> Nat] /\ conn' \in [Conns -> Sockets]
    BY <1>3a DEF Disconnect, TypeOK, Sockets
  <2> QED
    BY <1>3a, <2>1, <2>2 DEF Disconnect, TypeOK, launchVars, audioVars
<1>4. ASSUME NEW c \in Conns, Deliver(c) PROVE TypeOK'
  <2> DEFINE h == <<c, delivered[c] + 1>>
  <2>1. delivered[c] \in 0..2 /\ delivered[c] < Deliveries(c)
    BY <1>4 DEF Deliver, TypeOK
  <2>2. delivered[c] + 1 \in 1..2 /\ delivered[c] + 1 <= Deliveries(c)
    BY <2>1, HoldersType
  <2>3. h \in Holders
    BY <2>2, HoldersType
  <2>4. disturbed' \subseteq Hazards
    BY <1>4 DEF Deliver, TypeOK, Hazards
  <2>0. delivered[c] + 1 \in 0..2 /\ now + Timeout \in Nat
    BY <2>2 DEF TypeOK
  <2>5. delivered' \in [Conns -> 0..2]
    BY <1>4, <2>0 DEF Deliver, TypeOK
  <2>6. holder' \in [Holders -> Phases]
    BY <1>4, <2>3 DEF Deliver, TypeOK, Phases, Live
  <2>7. killAt' \in [Holders -> Nat]
    BY <1>4, <2>0, <2>3 DEF Deliver, TypeOK
  <2> QED
    BY <1>4, <2>4, <2>5, <2>6, <2>7 DEF Deliver, TypeOK, socketVars, audioVars
<1>5. ASSUME NEW c \in Talkers, FrameArrives(c) PROVE TypeOK'
  <2>1. spoken[c] + 1 \in 1..MaxFrames
    BY <1>5 DEF FrameArrives, TypeOK
  <2> QED
    BY <1>5, <2>1 DEF FrameArrives, TypeOK, socketVars, launchVars
<1>6. ASSUME NEW c \in Talkers, StoreFrame(c) PROVE TypeOK'
  BY <1>6, SMTT(30) DEF StoreFrame, TypeOK, socketVars, launchVars
<1>7. ASSUME NEW h \in Holders,
             OpenStream(h) \/ OpenFails(h) \/ DeadlineReached(h) \/ StreamClosed(h)
      PROVE  TypeOK'
  <2>1. holder' \in [Holders -> Phases]
    BY <1>7, BecomeType DEF OpenStream, OpenFails, DeadlineReached, StreamClosed,
       Phases, Live, Talking
  <2> QED
    BY <1>7, <2>1 DEF OpenStream, OpenFails, DeadlineReached, StreamClosed, TypeOK,
       socketVars, audioVars
<1>7a. ASSUME NEW h \in Holders, TakeFrames(h) \/ ClearFrames(h)
       PROVE  TypeOK'
  <2>1. holder' \in [Holders -> Phases]
    BY <1>7a, BecomeType DEF TakeFrames, ClearFrames, Phases, Live, Talking
  <2> QED
    BY <1>7a, <2>1 DEF TakeFrames, ClearFrames, TypeOK, socketVars
<1>7b. ASSUME NEW h \in Holders, PumpRaises(h) PROVE TypeOK'
  <2>1. holder' \in [Holders -> Phases]
    BY <1>7b, BecomeType DEF PumpRaises, Phases, Live
  <2> QED
    BY <1>7b, <2>1 DEF PumpRaises, TypeOK, socketVars
<1>7c. ASSUME NEW h \in Holders, Die(h) PROVE TypeOK'
  <2>1. holder' \in [Holders -> Phases]
    BY <1>7c, BecomeType DEF Die, Phases
  <2>2. killAt' \in [Holders -> Nat] /\ batch' \in [Holders -> SUBSET (1..MaxFrames)]
    BY <1>7c DEF Die, TypeOK
  <2> QED
    BY <1>7c, <2>1, <2>2 DEF Die, TypeOK, socketVars
<1>8. ASSUME NEW h \in Holders, SendFrame(h) PROVE TypeOK'
  <2>1. NextFrame(h) \in batch[h]
    BY <1>8, NextFrameIsFirst DEF SendFrame
  <2>2. sent' \in [Talkers -> Seq(1..MaxFrames)]
    <3>1. CASE Conn(h) \in Talkers
      <4>1. Append(sent[Conn(h)], NextFrame(h)) \in Seq(1..MaxFrames)
        BY <2>1, <3>1, AppendProperties DEF TypeOK
      <4> QED
        BY <4>1, <1>8, <3>1 DEF SendFrame, TypeOK
    <3>2. CASE Conn(h) \notin Talkers
      BY <1>8, <3>2 DEF SendFrame, TypeOK
    <3> QED
      BY <3>1, <3>2
  <2> QED
    BY <1>8, <2>2, BecomeType DEF SendFrame, TypeOK, Phases, Live, Talking, socketVars
<1>9. ASSUME NEW h \in Holders, CleanUp(h) PROVE TypeOK'
  BY <1>9, HoldersType, BecomeType DEF CleanUp, TypeOK, Phases, Sockets, audioVars
<1>10. ASSUME Tick PROVE TypeOK'
  BY <1>10 DEF Tick, TypeOK, socketVars, launchVars, audioVars
<1>11. ASSUME UNCHANGED vars PROVE TypeOK'
  BY <1>11 DEF vars, TypeOK, socketVars, launchVars, audioVars
<1> QED
  BY <1>1, <1>1a, <1>2, <1>2a, <1>3, <1>3a, <1>3b, <1>4, <1>5, <1>6, <1>7, <1>7a,
     <1>7b, <1>7c, <1>8,
     <1>9, <1>10, <1>11, NextCases

\* Every variable of the bridge keeps its type (handler.py, relay.py).
THEOREM TypeCorrect == Spec => []TypeOK
  BY InitTypeOK, NextTypeOK, PTL DEF Spec

-----------------------------------------------------------------------------
(* The launches *)

\* Deliveries are numbered as they come, and only a connection whose launch
\* was accepted gets any or ever is up.
LaunchInv ==
    /\ \A h \in Holders : holder[h] # "none" <=> h[2] <= delivered[Conn(h)]
    /\ \A c \in Conns :
        /\ delivered[c] > 0 \/ conn[c] \in {"up", "closing"} => c \in launched
        /\ conn[c] \in {"out", "counted", "put"} => c \notin launched

\* A step of a running holder, as far as launches are concerned.
LEMMA HolderStep ==
    ASSUME TypeOK, NEW h \in Holders,
           \/ OpenStream(h) \/ OpenFails(h) \/ TakeFrames(h) \/ ClearFrames(h)
           \/ SendFrame(h) \/ PumpRaises(h) \/ DeadlineReached(h)
           \/ StreamClosed(h) \/ CleanUp(h) \/ Die(h)
    PROVE  /\ holder[h] \in Live /\ holder'[h] # "none"
           /\ \A g \in Holders : g # h => holder'[g] = holder[g]
           /\ UNCHANGED <<now, tok, deadline, launched, delivered>>
           /\ \A c \in Conns : conn'[c] # conn[c] => conn[c] = "up" /\ conn'[c] = "closing"
<1>1. holder[h] \in Live /\ UNCHANGED <<now, tok, deadline, launched, delivered>>
  BY DEF OpenStream, OpenFails, TakeFrames, ClearFrames, SendFrame, PumpRaises,
     DeadlineReached, StreamClosed, CleanUp, Die, Live, Talking, socketVars
<1>2. \E phase \in Phases \ {"none"} : Become(h, phase)
  BY DEF OpenStream, OpenFails, TakeFrames, ClearFrames, SendFrame, PumpRaises,
     DeadlineReached, StreamClosed, CleanUp, Die, Phases, Live, Talking
<1>3. \A c \in Conns : conn'[c] # conn[c] => conn[c] = "up" /\ conn'[c] = "closing"
  BY DEF OpenStream, OpenFails, TakeFrames, ClearFrames, SendFrame, PumpRaises,
     DeadlineReached, StreamClosed, CleanUp, Die, socketVars, TypeOK
<1> QED
  BY <1>1, <1>2, <1>3 DEF Become, TypeOK

LEMMA LaunchInvCorrect == Spec => []LaunchInv
<1>1. Init => LaunchInv
  BY HoldersType DEF Init, LaunchInv
<1>2. TypeOK /\ LaunchInv /\ [Next]_vars => LaunchInv'
  <2> SUFFICES ASSUME TypeOK, LaunchInv, [Next]_vars PROVE LaunchInv'
    OBVIOUS
  <2>1. ASSUME NEW c \in Conns, NEW t \in Tokens, Unauthorised(c, t) \/ Connect(c, t)
        PROVE  LaunchInv'
    <3>1. UNCHANGED <<launched, delivered, holder>> /\ c \notin launched
      BY <2>1 DEF Unauthorised, Connect, LaunchInv, launchVars
    <3>2. conn' = [conn EXCEPT ![c] = "gone"] \/ conn' = [conn EXCEPT ![c] = "counted"]
      BY <2>1 DEF Unauthorised, Connect
    <3> QED
      BY <3>1, <3>2 DEF LaunchInv, TypeOK
  <2>2. ASSUME NEW c \in Conns, PutSession(c) PROVE LaunchInv'
    BY <2>2 DEF PutSession, LaunchInv, TypeOK, launchVars
  <2>3. ASSUME NEW c \in Conns, LaunchSession(c) PROVE LaunchInv'
    BY <2>3 DEF LaunchSession, LaunchInv, TypeOK
  <2>4. ASSUME NEW c \in Conns, HangUp(c) \/ Disconnect(c) PROVE LaunchInv'
    BY <2>4 DEF HangUp, Disconnect, LaunchInv, TypeOK, launchVars
  <2>5. ASSUME NEW c \in Conns, Deliver(c) PROVE LaunchInv'
    <3>1. /\ UNCHANGED <<conn, launched>> /\ c \in launched
          /\ delivered[c] + 1 \in 1..2 /\ <<c, delivered[c] + 1>> \in Holders
      <4>1. delivered[c] \in 0..2 /\ delivered[c] < Deliveries(c)
        BY <2>5 DEF Deliver, TypeOK
      <4>2. delivered[c] + 1 \in 1..2 /\ delivered[c] + 1 <= Deliveries(c)
        BY <4>1, HoldersType
      <4> QED
        BY <2>5, <4>2, HoldersType DEF Deliver, socketVars
    <3>2. /\ \A d \in Conns : delivered'[d] = IF d = c THEN delivered[c] + 1 ELSE delivered[d]
          /\ \A h \in Holders : holder'[h] = IF h = <<c, delivered[c] + 1>> THEN "opening"
                                              ELSE holder[h]
      BY <2>5, <3>1 DEF Deliver, TypeOK
    <3>3. ASSUME NEW h \in Holders
          PROVE  holder'[h] # "none" <=> h[2] <= delivered'[Conn(h)]
      <4>1. CASE Conn(h) # c
        BY <3>1, <3>2, <4>1, HoldersType DEF LaunchInv
      <4>2. CASE Conn(h) = c
        <5>1. h[2] \in 1..2 /\ h = <<c, h[2]>> /\ delivered[c] \in 0..2
          BY <4>2, HoldersType DEF TypeOK
        <5>2. holder[h] # "none" <=> h[2] <= delivered[c]
          BY <4>2 DEF LaunchInv
        <5>3. CASE h[2] = delivered[c] + 1
          BY <3>2, <4>2, <5>1, <5>3
        <5>4. CASE h[2] # delivered[c] + 1
          <6>1. holder'[h] = holder[h]
            BY <3>2, <5>1, <5>4
          <6> QED
            BY <3>2, <4>2, <5>1, <5>2, <5>4, <6>1
        <5> QED
          BY <5>3, <5>4
      <4> QED
        BY <4>1, <4>2
    <3> QED
      BY <3>1, <3>2, <3>3 DEF LaunchInv, TypeOK
  <2>6. ASSUME NEW h \in Holders,
               \/ OpenStream(h) \/ OpenFails(h) \/ TakeFrames(h) \/ ClearFrames(h)
               \/ SendFrame(h) \/ PumpRaises(h) \/ DeadlineReached(h)
               \/ StreamClosed(h) \/ CleanUp(h) \/ Die(h)
        PROVE  LaunchInv'
    <3>1. holder[h] # "none"
      BY <2>6, HolderStep DEF Live, Talking
    <3> QED
      BY <2>6, <3>1, HolderStep DEF LaunchInv
  <2>7. ASSUME NEW c \in Talkers, FrameArrives(c) \/ StoreFrame(c) PROVE LaunchInv'
    BY <2>7 DEF FrameArrives, StoreFrame, LaunchInv, socketVars, launchVars
  <2>8. ASSUME NEW c \in Conns, Purge(c) PROVE LaunchInv'
    BY <2>8 DEF Purge, LaunchInv, socketVars, launchVars
  <2>9. CASE Tick \/ UNCHANGED vars
    BY <2>9 DEF Tick, vars, LaunchInv, socketVars, launchVars
  <2> QED
    BY <2>1, <2>2, <2>3, <2>4, <2>5, <2>6, <2>7, <2>8, <2>9, NextCases
<1> QED
  BY <1>1, <1>2, TypeCorrect, PTL DEF Spec

-----------------------------------------------------------------------------
(* The gate *)

\* Whoever got past $connect has a badge, and so has whatever serves it.
GateInv ==
    /\ \A c \in Conns :
        /\ conn[c] = "out" => tok[c] = NoToken
        /\ conn[c] \in {"counted", "put"} \/ c \in launched => tok[c] # NoToken
    /\ \A h \in Holders : holder[h] # "none" => tok[Conn(h)] # NoToken

LEMMA GateInvCorrect == Spec => []GateInv
<1>1. Init => GateInv
  BY DEF Init, GateInv
<1>2. TypeOK /\ GateInv /\ [Next]_vars => GateInv'
  <2> SUFFICES ASSUME TypeOK, GateInv, [Next]_vars PROVE GateInv'
    OBVIOUS
  <2>1. ASSUME NEW c \in Conns, NEW t \in Tokens, Unauthorised(c, t)
        PROVE  GateInv'
    BY <2>1 DEF Unauthorised, GateInv, TypeOK, launchVars
  <2>2. ASSUME NEW c \in Conns, NEW t \in Tokens, Connect(c, t)
        PROVE  GateInv'
    <3>1. CASE CountActive >= MaxConcurrent
      BY <2>2, <3>1 DEF Connect, GateInv, TypeOK, launchVars
    <3>2. CASE ~(CountActive >= MaxConcurrent)
      <4>1. /\ UNCHANGED <<launched, holder>> /\ tok[c] = NoToken /\ t # NoToken
            /\ conn' = [conn EXCEPT ![c] = "counted"] /\ tok' = [tok EXCEPT ![c] = t]
        BY <2>2, <3>2, BridgeAssumption DEF Connect, GateInv, launchVars
      <4> QED
        BY <4>1, HoldersType DEF GateInv, TypeOK
    <3> QED
      BY <3>1, <3>2
  <2>3. ASSUME NEW c \in Conns, PutSession(c) PROVE GateInv'
    BY <2>3 DEF PutSession, GateInv, TypeOK, launchVars
  <2>4. ASSUME NEW c \in Conns, LaunchSession(c) PROVE GateInv'
    BY <2>4 DEF LaunchSession, GateInv, TypeOK
  <2>5. ASSUME NEW c \in Conns, HangUp(c) \/ Disconnect(c) PROVE GateInv'
    BY <2>5 DEF HangUp, Disconnect, GateInv, TypeOK, launchVars
  <2>6. ASSUME NEW c \in Conns, Deliver(c) PROVE GateInv'
    <3>1. UNCHANGED <<conn, tok, launched>> /\ tok[c] # NoToken
      BY <2>6 DEF Deliver, GateInv, socketVars
    <3>2. \A h \in Holders : Conn(h) # c => holder'[h] = holder[h]
      <4> SUFFICES ASSUME NEW h \in Holders, Conn(h) # c PROVE holder'[h] = holder[h]
        OBVIOUS
      <4>1. h # <<c, delivered[c] + 1>>
        BY DEF Conn
      <4> QED
        BY <2>6, <4>1 DEF Deliver, TypeOK
    <3> QED
      BY <3>1, <3>2 DEF GateInv
  <2>7. ASSUME NEW h \in Holders,
               \/ OpenStream(h) \/ OpenFails(h) \/ TakeFrames(h) \/ ClearFrames(h)
               \/ SendFrame(h) \/ PumpRaises(h) \/ DeadlineReached(h)
               \/ StreamClosed(h) \/ CleanUp(h) \/ Die(h)
        PROVE  GateInv'
    <3>1. holder[h] # "none"
      BY <2>7, HolderStep DEF Live, Talking
    <3> QED
      BY <2>7, <3>1, HolderStep DEF GateInv
  <2>8. ASSUME NEW c \in Talkers, FrameArrives(c) \/ StoreFrame(c) PROVE GateInv'
    BY <2>8 DEF FrameArrives, StoreFrame, GateInv, socketVars, launchVars
  <2>9. ASSUME NEW c \in Conns, Purge(c) PROVE GateInv'
    BY <2>9 DEF Purge, GateInv, socketVars, launchVars
  <2>10. CASE Tick \/ UNCHANGED vars
    BY <2>10 DEF Tick, vars, GateInv, socketVars, launchVars
  <2> QED
    BY <2>1, <2>2, <2>3, <2>4, <2>5, <2>6, <2>7, <2>8, <2>9, <2>10, NextCases
<1> QED
  BY <1>1, <1>2, TypeCorrect, PTL DEF Spec

LEMMA StreamsFinite ==
    /\ IsFiniteSet(Holders)
    /\ \A S \in SUBSET Holders : IsFiniteSet(S) /\ Cardinality(S) \in Nat
<1>1. IsFiniteSet(1..2)
  <2>1. 1 \in Int /\ 2 \in Int
    OBVIOUS
  <2> QED
    BY <2>1, FS_Interval
<1>2. IsFiniteSet(Conns \X (1..2))
  BY <1>1, FS_Product, BridgeAssumption
<1>3. IsFiniteSet(Holders)
  <2>1. Holders \in SUBSET (Conns \X (1..2))
    BY DEF Holders
  <2> QED
    BY <1>2, <2>1, FS_Subset
<1> QED
  BY <1>3, FS_Subset, FS_CardinalityType

\* The streams a connection has open.
Serving(c) == {h \in Streams : Conn(h) = c}

LEMMA ServingType ==
    \A c \in Conns : /\ IsFiniteSet(Serving(c)) /\ StreamsOf(c) \in Nat
                     /\ StreamsOf(c) = Cardinality(Serving(c))
<1> SUFFICES ASSUME NEW c \in Conns
             PROVE  /\ IsFiniteSet(Serving(c)) /\ StreamsOf(c) \in Nat
                    /\ StreamsOf(c) = Cardinality(Serving(c))
  OBVIOUS
<1>1. Serving(c) \in SUBSET Holders
  BY DEF Serving, Streams
<1>2. StreamsOf(c) = Cardinality(Serving(c))
  BY DEF StreamsOf, Serving
<1> QED
  BY <1>1, <1>2, StreamsFinite

\* A stream that opens is one more of its connection and of no other; one
\* that closes, one less; a holder that only goes on changes no count.
LEMMA StreamOpens ==
    ASSUME TypeOK, NEW h \in Holders, holder[h] \notin Talking, Become(h, "streaming")
    PROVE  /\ StreamsOf(Conn(h))' = StreamsOf(Conn(h)) + 1
           /\ \A c \in Conns : c # Conn(h) => StreamsOf(c)' = StreamsOf(c)
<1>1. \A g \in Holders : holder'[g] = IF g = h THEN "streaming" ELSE holder[g]
  BY DEF Become, TypeOK
<1>2. Serving(Conn(h))' = Serving(Conn(h)) \cup {h} /\ h \notin Serving(Conn(h))
  BY <1>1 DEF Serving, Streams, Talking
<1>3. \A c \in Conns : c # Conn(h) => Serving(c)' = Serving(c)
  BY <1>1 DEF Serving, Streams, Talking
<1>4. Cardinality(Serving(Conn(h)) \cup {h}) = Cardinality(Serving(Conn(h))) + 1
  BY <1>2, ServingType, HoldersType, FS_AddElement
<1> QED
  BY <1>2, <1>3, <1>4 DEF StreamsOf, Serving

LEMMA StreamCloses ==
    ASSUME TypeOK, NEW h \in Holders, holder[h] \in Talking,
           NEW phase, phase \notin Talking, Become(h, phase)
    PROVE  /\ StreamsOf(Conn(h)) > 0
           /\ StreamsOf(Conn(h))' = StreamsOf(Conn(h)) - 1
           /\ \A c \in Conns : c # Conn(h) => StreamsOf(c)' = StreamsOf(c)
<1>1. \A g \in Holders : holder'[g] = IF g = h THEN phase ELSE holder[g]
  BY DEF Become, TypeOK
<1>2. Serving(Conn(h))' = Serving(Conn(h)) \ {h} /\ h \in Serving(Conn(h))
  BY <1>1 DEF Serving, Streams
<1>3. \A c \in Conns : c # Conn(h) => Serving(c)' = Serving(c)
  BY <1>1 DEF Serving, Streams
<1>4. Cardinality(Serving(Conn(h)) \ {h}) = Cardinality(Serving(Conn(h))) - 1
  BY <1>2, ServingType, HoldersType, FS_RemoveElement
<1>5. Cardinality(Serving(Conn(h))) # 0
  BY <1>2, ServingType, HoldersType, FS_EmptySet
<1>6. /\ StreamsOf(Conn(h)) = Cardinality(Serving(Conn(h)))
      /\ Cardinality(Serving(Conn(h))) \in Nat
  BY ServingType, HoldersType
<1>7. StreamsOf(Conn(h))' = Cardinality(Serving(Conn(h)))'
  BY DEF StreamsOf, Serving
<1>8. \A c \in Conns : c # Conn(h) => StreamsOf(c)' = StreamsOf(c)
  BY <1>3 DEF StreamsOf, Serving
<1> QED
  BY <1>2, <1>4, <1>5, <1>6, <1>7, <1>8

LEMMA StreamsStay ==
    ASSUME TypeOK, \A h \in Holders : holder[h] \in Talking <=> holder'[h] \in Talking
    PROVE  \A c \in Conns : StreamsOf(c)' = StreamsOf(c)
<1>1. Streams' = Streams
  BY DEF Streams
<1> QED
  BY <1>1 DEF StreamsOf

LEMMA NextGate ==
    ASSUME TypeOK, LaunchInv, GateInv, [Next]_vars
    PROVE  [Gate!Next]_<<tok, [c \in Conns |-> StreamsOf(c)]>>
<1> DEFINE Count == [c \in Conns |-> StreamsOf(c)]
           Stays == UNCHANGED <<tok, Count>>
<1>a. ASSUME UNCHANGED tok, NEW h \in Holders, holder[h] \in Talking,
             NEW phase, phase \notin Talking, Become(h, phase)
      PROVE  Gate!Next
  <2>1. Count' = [Count EXCEPT ![Conn(h)] = @ - 1] /\ Count[Conn(h)] > 0
    BY <1>a, StreamCloses, HoldersType
  <2> QED
    BY <1>a, <2>1, HoldersType DEF Gate!Next, Gate!Close
<1>b. ASSUME UNCHANGED tok,
             \A h \in Holders : holder[h] \in Talking <=> holder'[h] \in Talking
      PROVE  Stays
  BY <1>b, StreamsStay
<1>c. ASSUME UNCHANGED tok, NEW h \in Holders, NEW phase, Become(h, phase),
             holder[h] \in Talking <=> phase \in Talking
      PROVE  Stays
  <2>1. \A g \in Holders : holder[g] \in Talking <=> holder'[g] \in Talking
    BY <1>c DEF Become, TypeOK
  <2> QED
    BY <1>b, <1>c, <2>1
<1>1. ASSUME NEW c \in Conns, NEW t \in Tokens, Connect(c, t), ~Stays
      PROVE  Gate!Next
  <2>1. CASE CountActive >= MaxConcurrent
    BY <1>1, <1>b, <2>1 DEF Connect, launchVars
  <2>2. CASE ~(CountActive >= MaxConcurrent)
    <3>1. tok[c] = NoToken /\ tok' = [tok EXCEPT ![c] = t] /\ GenuineVoice(t)
      BY <1>1, <2>2 DEF Connect, GateInv, VerifyVoiceToken, GenuineVoice
    <3>2. Count' = Count
      BY <1>1, StreamsStay DEF Connect, launchVars
    <3> QED
      BY <3>1, <3>2 DEF Gate!Next, Gate!Admit
  <2> QED
    BY <2>1, <2>2
<1>2. ASSUME NEW h \in Holders, OpenStream(h) PROVE Gate!Next
  <2>1. Count' = [Count EXCEPT ![Conn(h)] = @ + 1]
    BY <1>2, StreamOpens, HoldersType DEF OpenStream, Talking
  <2>2. tok' = tok /\ tok[Conn(h)] # NoToken
    BY <1>2 DEF OpenStream, GateInv, socketVars
  <2> QED
    BY <2>1, <2>2, HoldersType DEF Gate!Next, Gate!Open
<1>3. ASSUME NEW h \in Holders, DeadlineReached(h) \/ StreamClosed(h) \/ PumpRaises(h)
      PROVE  Gate!Next
  BY <1>3, <1>a DEF DeadlineReached, StreamClosed, PumpRaises, Talking, socketVars
<1>4. ASSUME NEW h \in Holders, Die(h) PROVE Gate!Next \/ Stays
  <2>1. tok' = tok /\ Become(h, "over") /\ "over" \notin Talking
    BY <1>4 DEF Die, Talking, socketVars
  <2> QED
    BY <1>a, <1>c, <2>1
<1>5. ASSUME NEW h \in Holders,
             OpenFails(h) \/ TakeFrames(h) \/ ClearFrames(h) \/ SendFrame(h) \/ CleanUp(h)
      PROVE  Stays
  <2>1. tok' = tok
    BY <1>5 DEF OpenFails, TakeFrames, ClearFrames, SendFrame, CleanUp, socketVars
  <2>2. \E phase : Become(h, phase) /\ (holder[h] \in Talking <=> phase \in Talking)
    BY <1>5 DEF OpenFails, TakeFrames, ClearFrames, SendFrame, CleanUp, Talking
  <2> QED
    BY <1>c, <2>1, <2>2
<1>6. ASSUME NEW c \in Conns, Deliver(c) PROVE Stays
  <2>1. ASSUME NEW h \in Holders, h = <<c, delivered[c] + 1>>
        PROVE  holder[h] = "none" /\ holder'[h] = "opening"
    <3>1. Conn(h) = c /\ h[2] = delivered[c] + 1 /\ delivered[c] \in 0..2
      BY <2>1 DEF Conn, TypeOK
    <3>2. ~(h[2] <= delivered[c])
      BY <3>1
    <3>3. holder'[h] = "opening"
      BY <1>6, <2>1 DEF Deliver, TypeOK
    <3> QED
      BY <3>1, <3>2, <3>3 DEF LaunchInv
  <2>2. \A h \in Holders : h # <<c, delivered[c] + 1>> => holder'[h] = holder[h]
    BY <1>6 DEF Deliver, TypeOK
  <2>3. \A h \in Holders : holder[h] \in Talking <=> holder'[h] \in Talking
    BY <2>1, <2>2 DEF Talking
  <2> QED
    BY <1>6, <1>b, <2>3 DEF Deliver, socketVars
<1>7. ASSUME NEW c \in Conns, NEW t \in Tokens, Unauthorised(c, t) PROVE Stays
  BY <1>7, <1>b DEF Unauthorised, launchVars
<1>8. ASSUME NEW c \in Conns, \/ PutSession(c) \/ LaunchSession(c) \/ HangUp(c)
                              \/ Disconnect(c) \/ Purge(c)
      PROVE  Stays
  BY <1>8, <1>b DEF PutSession, LaunchSession, HangUp, Disconnect, Purge, launchVars,
     socketVars
<1>9. ASSUME NEW c \in Talkers, FrameArrives(c) \/ StoreFrame(c) PROVE Stays
  BY <1>9, <1>b DEF FrameArrives, StoreFrame, launchVars, socketVars
<1>10. CASE Tick \/ UNCHANGED vars
  BY <1>10, <1>b DEF Tick, vars, launchVars, socketVars
<1> QED
  BY <1>1, <1>2, <1>3, <1>4, <1>5, <1>6, <1>7, <1>8, <1>9, <1>10, NextCases

\* The bridge implements VoiceGate for every number of connections: a model
\* stream is only ever opened for a connection that showed a genuine token,
\* however launches are delivered, repeated, killed or late (handler.py).
THEOREM OnlyEntry == Spec => GateIsTheOnlyEntry
<1>1. Init => Gate!Init
  <2> SUFFICES ASSUME Init PROVE Gate!Init
    OBVIOUS
  <2>1. \A c \in Conns : StreamsOf(c) = 0
    <3> SUFFICES ASSUME NEW c \in Conns PROVE StreamsOf(c) = 0
      OBVIOUS
    <3>1. Serving(c) = {}
      BY DEF Init, Serving, Streams, Talking
    <3> QED
      BY <3>1, FS_EmptySet, ServingType
  <2> QED
    BY <2>1 DEF Init, Gate!Init
<1> QED
  BY <1>1, NextGate, TypeCorrect, LaunchInvCorrect, GateInvCorrect, PTL
     DEF Spec, GateIsTheOnlyEntry, Gate!Spec
-----------------------------------------------------------------------------
(* The cap *)

Busy == Talking \cup {"opening"}

\* The slot of a connection: held until well after the session's deadline, or
\* dropped by the table after that.
Slotted(c) == \/ row[c] = deadline[c] + Grace
              \/ row[c] = 0 /\ now >= deadline[c] + Grace

\* While nothing has gone wrong, whatever serves a connection, or is about to,
\* has an unexpired row to be counted by, and no connection is served twice.
SlotInv ==
    /\ \A c \in Conns :
        /\ conn[c] = "put" \/ (c \in launched /\ delivered[c] = 0) => Slotted(c)
        /\ delivered[c] <= 1
    /\ \A h \in Holders :
        holder[h] \in Busy =>
            /\ row[Conn(h)] = deadline[Conn(h)] + Grace
            /\ killAt[h] <= deadline[Conn(h)] + Timeout
            /\ now <= killAt[h]

CapInv == disturbed = {} => SlotInv /\ CountActive <= MaxConcurrent

LEMMA ConnsFinite ==
    \A S \in SUBSET Conns : IsFiniteSet(S) /\ Cardinality(S) \in Nat
  BY BridgeAssumption, FS_Subset, FS_CardinalityType

LEMMA ActiveRowsFinite ==
    IsFiniteSet(ActiveRows) /\ CountActive = Cardinality(ActiveRows) /\ CountActive \in Nat
<1>1. ActiveRows \in SUBSET Conns
  BY DEF ActiveRows
<1> QED
  BY <1>1, ConnsFinite DEF CountActive

\* Fewer active rows, still no more than the cap.
LEMMA CountShrinks ==
    ASSUME ActiveRows' \subseteq ActiveRows, CountActive <= MaxConcurrent
    PROVE  CountActive' <= MaxConcurrent
<1>1. ActiveRows' \in SUBSET ActiveRows /\ ActiveRows' \in SUBSET Conns
  BY DEF ActiveRows
<1>2. Cardinality(ActiveRows') <= Cardinality(ActiveRows)
  BY <1>1, ActiveRowsFinite, FS_Subset
<1>3. Cardinality(ActiveRows') \in Nat
  BY <1>1, ConnsFinite
<1>4. CountActive' = Cardinality(ActiveRows')
  BY DEF CountActive
<1> QED
  BY <1>2, <1>3, <1>4, ActiveRowsFinite, Constants

\* A step that moves a running holder, and neither the clock, a row nor a
\* connection, cannot disturb the slots.
LEMMA SlotsStay ==
    ASSUME TypeOK, CapInv, NEW h \in Holders, NEW phase, Become(h, phase),
           phase \in Busy => holder[h] \in Busy,
           UNCHANGED <<now, conn, deadline, row, launched, delivered, killAt, disturbed>>
    PROVE  CapInv'
<1>1. \A g \in Holders : holder'[g] \in Busy => holder[g] \in Busy
  BY DEF Become, TypeOK
<1>2. CountActive' = CountActive
  BY DEF CountActive, ActiveRows
<1> QED
  BY <1>1, <1>2 DEF CapInv, SlotInv, Slotted

LEMMA NotYetLaunched ==
    ASSUME TypeOK, LaunchInv, NEW c \in Conns, conn[c] \in {"out", "counted", "put"}
    PROVE  c \notin launched /\ delivered[c] = 0
<1>1. c \notin launched
  BY DEF LaunchInv
<1>2. ~(delivered[c] > 0) /\ delivered[c] \in 0..2
  BY <1>1 DEF LaunchInv, TypeOK
<1> QED
  BY <1>1, <1>2

LEMMA CapInvCorrect == Spec => []CapInv
<1>1. Init => CapInv
  <2> SUFFICES ASSUME Init PROVE CapInv
    OBVIOUS
  <2>1. ActiveRows = {}
    BY DEF Init, ActiveRows
  <2>2. CountActive = 0
    BY <2>1, FS_EmptySet DEF CountActive
  <2> QED
    BY <2>2, Constants DEF Init, CapInv, SlotInv, Busy, Talking
<1>2. TypeOK /\ LaunchInv /\ CapInv /\ [Next]_vars => CapInv'
  <2> SUFFICES ASSUME TypeOK, LaunchInv, CapInv, [Next]_vars, disturbed' = {}
               PROVE  SlotInv' /\ CountActive' <= MaxConcurrent
    BY DEF CapInv
  <2> USE Constants
  <2>0. disturbed = {} /\ SlotInv /\ CountActive <= MaxConcurrent
    <3>1. disturbed \subseteq disturbed'
      BY NextCases DEF Unauthorised, Connect, PutSession, LaunchSession, HangUp,
         Disconnect, Purge, Deliver, FrameArrives, StoreFrame, OpenStream,
         OpenFails, TakeFrames, ClearFrames, SendFrame, PumpRaises,
         DeadlineReached, StreamClosed, CleanUp, Die, Tick, vars
    <3> QED
      BY <3>1 DEF CapInv
  <2>1. ASSUME NEW c \in Conns, NEW t \in Tokens, Unauthorised(c, t) \/ Connect(c, t)
        PROVE  SlotInv' /\ CountActive' <= MaxConcurrent
    <3>1. /\ UNCHANGED <<now, row, launched, delivered, holder, killAt>>
          /\ \A d \in Conns : d # c => conn'[d] = conn[d] /\ deadline'[d] = deadline[d]
          /\ conn'[c] # "put"
      BY <2>1 DEF Unauthorised, Connect, launchVars, TypeOK
    <3>2. c \notin launched /\ delivered[c] = 0
      BY <2>1, NotYetLaunched DEF Unauthorised, Connect
    <3>3. \A h \in Holders : holder[h] \in Busy => Conn(h) # c
      BY <3>2, HoldersType DEF LaunchInv, Busy, Talking
    <3>4. CountActive' = CountActive
      BY <3>1 DEF CountActive, ActiveRows
    <3> QED
      BY <2>0, <3>1, <3>2, <3>3, <3>4, HoldersType DEF SlotInv, Slotted
  <2>2. ASSUME NEW c \in Conns, PutSession(c)
        PROVE  SlotInv' /\ CountActive' <= MaxConcurrent
    <3>1. /\ UNCHANGED <<now, deadline, launched, delivered, holder, killAt>>
          /\ row' = [row EXCEPT ![c] = deadline[c] + Grace]
          /\ conn' = [conn EXCEPT ![c] = "put"]
          /\ conn[c] = "counted"
      BY <2>2 DEF PutSession, launchVars
    <3>1a. CountActive < MaxConcurrent
      <4>1. ~(CountActive >= MaxConcurrent)
        BY <2>2 DEF PutSession
      <4> QED
        BY <4>1, ActiveRowsFinite
    <3>2. c \notin launched /\ delivered[c] = 0
      BY NotYetLaunched, <3>1
    <3>3. \A h \in Holders : holder[h] \in Busy => Conn(h) # c
      BY <3>2, HoldersType DEF LaunchInv, Busy, Talking
    <3>4. SlotInv'
      BY <2>0, <3>1, <3>2, <3>3, HoldersType DEF SlotInv, Slotted, TypeOK
    <3>5. ActiveRows' \in SUBSET (ActiveRows \cup {c})
      BY <3>1 DEF ActiveRows, TypeOK
    <3>6. /\ IsFiniteSet(ActiveRows \cup {c})
          /\ Cardinality(ActiveRows \cup {c}) <= CountActive + 1
      <4>1. /\ IsFiniteSet(ActiveRows \cup {c})
            /\ Cardinality(ActiveRows \cup {c}) =
                   IF c \in ActiveRows THEN Cardinality(ActiveRows)
                   ELSE Cardinality(ActiveRows) + 1
        BY ActiveRowsFinite, FS_AddElement
      <4> QED
        BY <4>1, ActiveRowsFinite
    <3>7. Cardinality(ActiveRows') <= Cardinality(ActiveRows \cup {c})
      BY <3>5, <3>6, FS_Subset
    <3>8. CountActive' = Cardinality(ActiveRows') /\ CountActive' \in Nat
      <4>1. ActiveRows' \in SUBSET Conns
        BY DEF ActiveRows
      <4> QED
        BY <4>1, ConnsFinite DEF CountActive
    <3>9. Cardinality(ActiveRows \cup {c}) \in Nat
      BY <3>6, FS_CardinalityType
    <3> QED
      BY <3>1a, <3>4, <3>6, <3>7, <3>8, <3>9, ActiveRowsFinite
  <2>3. ASSUME NEW c \in Conns, LaunchSession(c)
        PROVE  SlotInv' /\ CountActive' <= MaxConcurrent
    <3>1. /\ UNCHANGED <<now, deadline, row, delivered, holder, killAt>>
          /\ \A d \in Conns : d # c => conn'[d] = conn[d]
          /\ conn[c] = "put" /\ conn'[c] # "put" /\ launched' \subseteq launched \cup {c}
      BY <2>3 DEF LaunchSession, TypeOK
    <3>2. CountActive' = CountActive
      BY <3>1 DEF CountActive, ActiveRows
    <3> QED
      BY <2>0, <3>1, <3>2 DEF SlotInv, Slotted
  <2>4. ASSUME NEW c \in Conns, HangUp(c)
        PROVE  SlotInv' /\ CountActive' <= MaxConcurrent
    <3>1. /\ UNCHANGED <<now, deadline, row, launched, delivered, holder, killAt>>
          /\ \A d \in Conns : conn'[d] = "put" => conn[d] = "put"
      BY <2>4 DEF HangUp, TypeOK, launchVars
    <3>2. CountActive' = CountActive
      BY <3>1 DEF CountActive, ActiveRows
    <3> QED
      BY <2>0, <3>1, <3>2 DEF SlotInv, Slotted
  <2>5. ASSUME NEW c \in Conns, Disconnect(c)
        PROVE  SlotInv' /\ CountActive' <= MaxConcurrent
    <3>1. /\ UNCHANGED <<now, deadline, launched, delivered, holder, killAt>>
          /\ \A d \in Conns : conn'[d] = "put" => conn[d] = "put"
          /\ conn[c] = "closing" /\ conn'[c] = "gone"
          /\ row' = [row EXCEPT ![c] = 0]
          /\ ~Unserved(c) /\ ~Served(c)
      BY <2>5 DEF Disconnect, TypeOK, launchVars
    <3>2. ~(c \in launched /\ delivered[c] = 0)
      BY <3>1 DEF Unserved
    <3>3. \A h \in Holders : holder[h] \in Busy => Conn(h) # c
      BY <3>1 DEF Served, LiveHolders, Live, Busy, Talking
    <3>4. SlotInv'
      BY <2>0, <3>1, <3>2, <3>3, HoldersType DEF SlotInv, Slotted, TypeOK
    <3>5. ActiveRows' \subseteq ActiveRows
      BY <3>1 DEF ActiveRows, TypeOK
    <3> QED
      BY <2>0, <3>4, <3>5, CountShrinks, ActiveRowsFinite
  <2>6. ASSUME NEW c \in Conns, Deliver(c)
        PROVE  SlotInv' /\ CountActive' <= MaxConcurrent
    <3>0. UNCHANGED <<now, conn, deadline, row, launched>> /\ c \in launched
      BY <2>6 DEF Deliver, socketVars
    <3>1. delivered[c] = 0 /\ now <= deadline[c]
      <4>1. ~(delivered[c] > 0) /\ ~(now > deadline[c])
        BY <2>6 DEF Deliver
      <4>2. delivered[c] \in 0..2 /\ now \in Nat /\ deadline[c] \in Nat
        BY DEF TypeOK
      <4> QED
        BY <4>1, <4>2
    <3>2. /\ delivered' = [delivered EXCEPT ![c] = 1]
          /\ holder' = [holder EXCEPT ![<<c, 1>>] = "opening"]
          /\ killAt' = [killAt EXCEPT ![<<c, 1>>] = now + Timeout]
      <4>1. delivered[c] + 1 = 1
        BY <3>1
      <4> QED
        BY <2>6, <4>1 DEF Deliver
    <3>3. row[c] = deadline[c] + Grace
      BY <2>0, <3>0, <3>1 DEF SlotInv, Slotted, TypeOK
    <3>4. CountActive' = CountActive
      BY <3>0 DEF CountActive, ActiveRows
    <3>5. \A d \in Conns : /\ delivered'[d] <= 1
                           /\ delivered'[d] = 0 => delivered[d] = 0
      <4>1. \A d \in Conns : delivered'[d] = IF d = c THEN 1 ELSE delivered[d]
        BY <3>2 DEF TypeOK
      <4> QED
        BY <2>0, <4>1 DEF SlotInv
    <3>6. ASSUME NEW h \in Holders, holder'[h] \in Busy
          PROVE  /\ row[Conn(h)] = deadline[Conn(h)] + Grace
                 /\ killAt'[h] <= deadline[Conn(h)] + Timeout
                 /\ now <= killAt'[h]
      <4>1. CASE h = <<c, 1>>
        <5>1. Conn(h) = c /\ killAt'[h] = now + Timeout
          BY <3>2, <4>1 DEF Conn, TypeOK
        <5> QED
          BY <3>1, <3>3, <5>1 DEF TypeOK
      <4>2. CASE h # <<c, 1>>
        <5>1. holder'[h] = holder[h] /\ killAt'[h] = killAt[h]
          BY <3>2, <4>2 DEF TypeOK
        <5> QED
          BY <2>0, <3>6, <5>1 DEF SlotInv
      <4> QED
        BY <4>1, <4>2
    <3> QED
      <4>1. \A d \in Conns :
               conn'[d] = "put" \/ (d \in launched' /\ delivered'[d] = 0) => Slotted(d)'
        BY <2>0, <3>0, <3>5 DEF SlotInv, Slotted
      <4>2. \A h \in Holders : holder'[h] \in Busy =>
                /\ row'[Conn(h)] = deadline'[Conn(h)] + Grace
                /\ killAt'[h] <= deadline'[Conn(h)] + Timeout
                /\ now' <= killAt'[h]
        BY <3>0, <3>6
      <4>3. \A d \in Conns : delivered'[d] <= 1
        BY <3>5
      <4>4. SlotInv'
        BY <4>1, <4>2, <4>3, Zenon DEF SlotInv
      <4> QED
        BY <2>0, <3>4, <4>4
  <2>7. ASSUME NEW h \in Holders,
               \/ OpenStream(h) \/ OpenFails(h) \/ TakeFrames(h) \/ ClearFrames(h)
               \/ SendFrame(h) \/ PumpRaises(h) \/ DeadlineReached(h) \/ StreamClosed(h)
        PROVE  CapInv'
    <3>1. UNCHANGED <<now, conn, deadline, row, launched, delivered, killAt, disturbed>>
      BY <2>7 DEF OpenStream, OpenFails, TakeFrames, ClearFrames, SendFrame,
         PumpRaises, DeadlineReached, StreamClosed, socketVars
    <3>2. \E phase : Become(h, phase) /\ (phase \in Busy => holder[h] \in Busy)
      BY <2>7 DEF OpenStream, OpenFails, TakeFrames, ClearFrames, SendFrame,
         PumpRaises, DeadlineReached, StreamClosed, Busy, Talking
    <3> QED
      BY <3>1, <3>2, SlotsStay
  <2>8. ASSUME NEW h \in Holders, CleanUp(h)
        PROVE  SlotInv' /\ CountActive' <= MaxConcurrent
    <3> DEFINE c == Conn(h)
    <3>1. /\ UNCHANGED <<now, deadline, launched, delivered>>
          /\ \A d \in Conns : conn'[d] = "put" => conn[d] = "put"
          /\ row' = [row EXCEPT ![c] = 0]
          /\ \A g \in Holders : g # h => holder'[g] = holder[g] /\ killAt'[g] = killAt[g]
          /\ holder'[h] = "over" /\ holder[h] # "none" /\ c \in Conns
      BY <2>8, HoldersType DEF CleanUp, Become, TypeOK
    <3>2. delivered[c] = 1 /\ h = <<c, 1>> /\ c \in launched
      <4>1. h[2] \in 1..2 /\ h = <<c, h[2]>> /\ h[2] <= delivered[c]
        BY <3>1, HoldersType DEF LaunchInv
      <4>2. delivered[c] <= 1 /\ delivered[c] \in 0..2
        BY <2>0, <3>1 DEF SlotInv, TypeOK
      <4>3. delivered[c] = 1 /\ h[2] = 1
        BY <4>1, <4>2
      <4> QED
        BY <3>1, <4>1, <4>3 DEF LaunchInv
    <3>3. \A g \in Holders : holder'[g] \in Busy => Conn(g) # c /\ g # h
      <4> SUFFICES ASSUME NEW g \in Holders, holder'[g] \in Busy, Conn(g) = c \/ g = h
                   PROVE  FALSE
        OBVIOUS
      <4>1. g # h /\ Conn(g) = c /\ holder[g] # "none"
        BY <3>1 DEF Busy, Talking
      <4>2. g = <<c, g[2]>> /\ g[2] \in 1..2 /\ g[2] <= 1
        BY <3>2, <4>1, HoldersType DEF LaunchInv
      <4>3. g[2] = 1
        BY <4>2
      <4> QED
        BY <3>2, <4>1, <4>2, <4>3
    <3>4. SlotInv'
      <4>1. \A d \in Conns : d # c => row'[d] = row[d]
        BY <3>1 DEF TypeOK
      <4>2. conn[c] # "put"
        BY <3>1, <3>2 DEF LaunchInv
      <4>3. ~(conn'[c] = "put") /\ delivered[c] # 0
        BY <3>1, <3>2, <4>2
      <4> QED
        BY <2>0, <3>1, <3>3, <4>1, <4>3, HoldersType DEF SlotInv, Slotted
    <3>5. ActiveRows' \subseteq ActiveRows
      BY <3>1 DEF ActiveRows, TypeOK
    <3> QED
      BY <2>0, <3>4, <3>5, CountShrinks, ActiveRowsFinite
  <2>9. ASSUME NEW h \in Holders, Die(h)
        PROVE  SlotInv' /\ CountActive' <= MaxConcurrent
    <3>1. /\ UNCHANGED <<now, conn, deadline, row, launched, delivered>>
          /\ \A g \in Holders : holder'[g] \in Busy =>
                  holder[g] \in Busy /\ killAt'[g] = killAt[g]
      BY <2>9 DEF Die, Become, Busy, Talking, socketVars, TypeOK
    <3>2. CountActive' = CountActive
      BY <3>1 DEF CountActive, ActiveRows
    <3> QED
      BY <2>0, <3>1, <3>2 DEF SlotInv, Slotted
  <2>10. ASSUME NEW c \in Conns, Purge(c)
         PROVE  SlotInv' /\ CountActive' <= MaxConcurrent
    <3>1. /\ UNCHANGED <<now, conn, deadline, launched, delivered, holder, killAt>>
          /\ row' = [row EXCEPT ![c] = 0] /\ row[c] <= now
      BY <2>10 DEF Purge, socketVars, launchVars, TypeOK
    <3>2. \A h \in Holders : holder[h] \in Busy => Conn(h) # c
      <4> SUFFICES ASSUME NEW h \in Holders, holder[h] \in Busy, Conn(h) = c
                   PROVE  FALSE
        OBVIOUS
      <4>1. /\ row[c] = deadline[c] + Grace /\ killAt[h] <= deadline[c] + Timeout
            /\ now <= killAt[h]
        BY <2>0 DEF SlotInv
      <4>2. {row[c], deadline[c], killAt[h], now} \subseteq Nat
        BY DEF TypeOK
      <4> QED
        BY <3>1, <4>1, <4>2
    <3>3. Slotted(c) => Slotted(c)'
      BY <3>1 DEF Slotted, TypeOK
    <3>4. SlotInv'
      BY <2>0, <3>1, <3>2, <3>3, HoldersType DEF SlotInv, Slotted, TypeOK
    <3>5. ActiveRows' \subseteq ActiveRows
      BY <3>1 DEF ActiveRows, TypeOK
    <3> QED
      BY <2>0, <3>4, <3>5, CountShrinks, ActiveRowsFinite
  <2>11. CASE Tick
    <3>1. /\ UNCHANGED <<conn, deadline, row, launched, delivered, holder, killAt>>
          /\ now' = now + 1 /\ now \in Nat
          /\ \A h \in Holders : holder[h] \in Busy => now < killAt[h]
      BY <2>11 DEF Tick, LiveHolders, Live, Busy, Talking, socketVars, launchVars, TypeOK
    <3>2. \A h \in Holders : holder[h] \in Busy => now + 1 <= killAt[h]
      BY <3>1 DEF TypeOK
    <3>3. \A c \in Conns : Slotted(c) => Slotted(c)'
      BY <3>1 DEF Slotted, TypeOK
    <3>4. SlotInv'
      BY <2>0, <3>1, <3>2, <3>3 DEF SlotInv
    <3>5. ActiveRows' \subseteq ActiveRows
      BY <3>1 DEF ActiveRows, TypeOK
    <3> QED
      BY <2>0, <3>4, <3>5, CountShrinks, ActiveRowsFinite
  <2>12. ASSUME NEW c \in Talkers, FrameArrives(c) \/ StoreFrame(c)
         PROVE  SlotInv' /\ CountActive' <= MaxConcurrent
    <3>1. UNCHANGED <<now, conn, deadline, row, launched, delivered, holder, killAt>>
      BY <2>12 DEF FrameArrives, StoreFrame, socketVars, launchVars
    <3> QED
      BY <2>0, <3>1 DEF SlotInv, Slotted, CountActive, ActiveRows
  <2>13. CASE UNCHANGED vars
    BY <2>0, <2>13 DEF vars, socketVars, launchVars, SlotInv, Slotted, CountActive,
       ActiveRows
  <2> QED
    BY <2>1, <2>2, <2>3, <2>4, <2>5, <2>6, <2>7, <2>8, <2>9, <2>10, <2>11, <2>12,
       <2>13, NextCases DEF CapInv
<1> QED
  BY <1>1, <1>2, TypeCorrect, LaunchInvCorrect, PTL DEF Spec

\* For every cap, session length, grace and timeout shorter than the grace:
\* without stale counts, orphaned holders, redelivered or late launches there
\* are never more model streams than MAX_CONCURRENT_VOICE_SESSIONS, whatever
\* crashes, is killed, fails to launch or leaves (handler.py).
THEOREM CapUnlessDisturbed == Spec => []StreamsWithinCapUnlessDisturbed
<1>1. ASSUME TypeOK, LaunchInv, CapInv, disturbed = {}
      PROVE  StreamsWithinCap
  <2>1. SlotInv /\ CountActive <= MaxConcurrent
    BY <1>1 DEF CapInv
  <2> DEFINE conns == [h \in Streams |-> Conn(h)]
  <2>2. ASSUME NEW h \in Streams
        PROVE  h = <<Conn(h), 1>> /\ Conn(h) \in ActiveRows
    <3>1. h \in Holders /\ holder[h] \in Busy /\ holder[h] # "none"
      BY DEF Streams, Busy, Talking
    <3>2. h[2] \in 1..2 /\ h = <<Conn(h), h[2]>> /\ h[2] <= delivered[Conn(h)]
      BY <1>1, <3>1, HoldersType DEF LaunchInv
    <3>3. delivered[Conn(h)] <= 1 /\ delivered[Conn(h)] \in 0..2
      BY <1>1, <2>1, <3>1, HoldersType DEF SlotInv, TypeOK
    <3>4. h[2] = 1
      BY <3>2, <3>3
    <3>5. row[Conn(h)] > now
      <4>1. /\ row[Conn(h)] = deadline[Conn(h)] + Grace
            /\ killAt[h] <= deadline[Conn(h)] + Timeout
            /\ now <= killAt[h]
        BY <2>1, <3>1 DEF SlotInv
      <4>2. {deadline[Conn(h)], killAt[h], now} \subseteq Nat
        BY <1>1, <3>1, HoldersType, Constants DEF TypeOK
      <4> QED
        BY <4>1, <4>2, Constants
    <3> QED
      BY <3>1, <3>2, <3>4, <3>5, HoldersType DEF ActiveRows
  <2>3. conns \in Injection(Streams, ActiveRows)
    BY <2>2 DEF Injection, IsInjective
  <2>4. Cardinality(Streams) <= Cardinality(ActiveRows)
    BY <2>3, ActiveRowsFinite, FS_Injection
  <2>5. Cardinality(Streams) \in Nat
    BY StreamsFinite DEF Streams
  <2> QED
    BY <2>1, <2>4, <2>5, ActiveRowsFinite, Constants DEF StreamsWithinCap, CountActive
<1> QED
  BY <1>1, TypeCorrect, LaunchInvCorrect, CapInvCorrect, PTL
     DEF StreamsWithinCapUnlessDisturbed
-----------------------------------------------------------------------------
(* The audio *)

Heard(c) == {sent[c][i] : i \in 1..Len(sent[c])}
First(c) == <<c, 1>>

\* Of the frames numbered so far, each is in at most one place, and none is
\* left behind by a later one unless it is known to have been overtaken.
Placed(c) ==
    /\ inflight[c] \cup frames[c] \cup batch[First(c)] \cup Heard(c) \subseteq 1..spoken[c]
    /\ inflight[c] \cap (frames[c] \cup batch[First(c)] \cup Heard(c)) = {}
    /\ Heard(c) \cap (frames[c] \cup batch[First(c)]) = {}
    /\ holder[First(c)] # "taken" => frames[c] \cap batch[First(c)] = {}
    /\ holder[First(c)] \notin {"taken", "sending"} => batch[First(c)] = {}

Sorted(c) ==
    /\ \A f \in batch[First(c)], g \in Heard(c) : g < f \/ f \in overtaken[c]
    /\ \A f \in frames[c] \ batch[First(c)], g \in Heard(c) \cup batch[First(c)] :
          g < f \/ f \in overtaken[c]
    /\ \A i, j \in 1..Len(sent[c]) : i < j =>
          sent[c][i] < sent[c][j] \/ (sent[c][i] > sent[c][j] /\ sent[c][j] \in overtaken[c])

AudioInv == \A c \in Talkers : delivered[c] <= 1 => Placed(c) /\ Sorted(c)

LEMMA TalkerType ==
    ASSUME TypeOK, NEW c \in Talkers
    PROVE  /\ c \in Conns /\ First(c) \in Holders /\ Conn(First(c)) = c /\ First(c)[2] = 1
           /\ spoken[c] \in 0..MaxFrames /\ sent[c] \in Seq(1..MaxFrames)
           /\ Len(sent[c]) \in Nat /\ delivered[c] \in 0..2
           /\ inflight[c] \in SUBSET Nat /\ frames[c] \in SUBSET Nat
           /\ batch[First(c)] \in SUBSET Nat /\ Heard(c) \in SUBSET Nat
           /\ \A i \in 1..Len(sent[c]) : sent[c][i] \in Nat /\ sent[c][i] \in Heard(c)
<1>1. c \in Conns /\ First(c) \in Holders /\ Conn(First(c)) = c /\ First(c)[2] = 1
  <2>1. c \in Conns /\ 1 \in 1..2 /\ 1 <= Deliveries(c)
    BY Constants, HoldersType
  <2> QED
    BY <2>1, HoldersType DEF First
<1>2. sent[c] \in Seq(1..MaxFrames) /\ spoken[c] \in 0..MaxFrames
  BY DEF TypeOK
<1>3. \A i \in 1..Len(sent[c]) : sent[c][i] \in 1..MaxFrames
  BY <1>2, ElementOfSeq
<1>4. Len(sent[c]) \in Nat
  BY <1>2, LenProperties
<1>5. Heard(c) \in SUBSET Nat
  BY <1>3, Constants DEF Heard
<1>6. /\ inflight[c] \in SUBSET Nat /\ frames[c] \in SUBSET Nat
      /\ batch[First(c)] \in SUBSET Nat /\ delivered[c] \in 0..2
  BY <1>1, Constants DEF TypeOK
<1> QED
  BY <1>1, <1>2, <1>3, <1>4, <1>5, <1>6, Constants DEF Heard

\* A connection whose audio a step leaves alone.
LEMMA AudioStays ==
    ASSUME TypeOK, AudioInv, NEW c \in Talkers, delivered'[c] = delivered[c],
           delivered'[c] <= 1,
           inflight'[c] = inflight[c], frames'[c] = frames[c], sent'[c] = sent[c],
           overtaken'[c] = overtaken[c], spoken'[c] = spoken[c],
           batch'[First(c)] = batch[First(c)],
           \/ holder'[First(c)] = holder[First(c)]
           \/ /\ holder[First(c)] # "taken"
              /\ holder[First(c)] = "sending" => batch[First(c)] = {}
    PROVE  Placed(c)' /\ Sorted(c)'
<1>1. Placed(c) /\ Sorted(c) /\ Heard(c)' = Heard(c)
  BY DEF AudioInv, Heard
<1> QED
  BY <1>1 DEF Placed, Sorted, First

LEMMA AudioInvCorrect == Spec => []AudioInv
<1>1. Init => AudioInv
  <2> SUFFICES ASSUME Init, NEW c \in Talkers PROVE Placed(c) /\ Sorted(c)
    BY DEF AudioInv
  <2>1. TypeOK
    BY InitTypeOK
  <2>2. /\ sent[c] = <<>> /\ inflight[c] = {} /\ frames[c] = {} /\ batch[First(c)] = {}
        /\ First(c) \in Holders
    BY <2>1, TalkerType DEF Init
  <2>3. Len(sent[c]) = 0 /\ Heard(c) = {}
    BY <2>2 DEF Heard
  <2> QED
    BY <2>2, <2>3 DEF Placed, Sorted
<1>2. TypeOK /\ LaunchInv /\ AudioInv /\ [Next]_vars => AudioInv'
  <2> SUFFICES ASSUME TypeOK, LaunchInv, AudioInv, [Next]_vars,
                      NEW c \in Talkers, delivered'[c] <= 1
               PROVE  Placed(c)' /\ Sorted(c)'
    BY DEF AudioInv
  <2> DEFINE h == First(c)
  <2> HIDE DEF h
  <2>h. h = First(c)
    BY DEF h
  <2>0. /\ c \in Conns /\ h \in Holders /\ Conn(h) = c
        /\ \A g \in Holders : g # h /\ Conn(g) = c => g[2] = 2
    <3>1. c \in Conns /\ h \in Holders /\ Conn(h) = c
      BY <2>h, TalkerType
    <3>2. ASSUME NEW g \in Holders, g # h, Conn(g) = c PROVE g[2] = 2
      <4>1. g = <<c, g[2]>> /\ g[2] \in 1..2 /\ g # <<c, 1>>
        BY <2>h, <3>2, HoldersType DEF First
      <4>2. g[2] # 1
        BY <4>1
      <4> QED
        BY <4>1, <4>2
    <3> QED
      BY <3>1, <3>2
  <2>1. CASE UNCHANGED <<delivered, holder, audioVars>>
    BY <2>1, AudioStays DEF audioVars
  <2>2. ASSUME NEW d \in Conns, Deliver(d) PROVE Placed(c)' /\ Sorted(c)'
    <3>1. /\ UNCHANGED audioVars
          /\ delivered' = [delivered EXCEPT ![d] = @ + 1]
          /\ holder' = [holder EXCEPT ![<<d, delivered[d] + 1>>] = "opening"]
      BY <2>2 DEF Deliver
    <3>2. CASE d # c
      <4>1. delivered'[c] = delivered[c]
        BY <2>0, <3>1, <3>2 DEF TypeOK
      <4>2. h # <<d, delivered[d] + 1>>
        BY <2>h, <3>2 DEF First
      <4>3. holder'[h] = holder[h]
        BY <2>0, <3>1, <4>2 DEF TypeOK
      <4> QED
        BY <2>h, <3>1, <4>1, <4>3, AudioStays DEF audioVars
    <3>3. CASE d = c
      <4>1. delivered[c] = 0
        <5>1. delivered'[c] = delivered[c] + 1 /\ delivered[c] \in 0..2
          BY <2>0, <3>1, <3>3 DEF TypeOK
        <5> QED
          BY <5>1
      <4>2. holder[h] = "none"
        <5>1. h[2] = 1
          BY <2>h DEF First
        <5> QED
          BY <2>0, <4>1, <5>1 DEF LaunchInv
      <4>3. holder'[h] = "opening"
        BY <2>0, <2>h, <3>1, <3>3, <4>1 DEF First, TypeOK
      <4>4. Placed(c) /\ Sorted(c) /\ Heard(c)' = Heard(c) /\ UNCHANGED audioVars
        BY <3>1, <4>1 DEF AudioInv, Heard, audioVars
      <4> QED
        BY <2>h, <4>2, <4>3, <4>4 DEF Placed, Sorted, First, audioVars
    <3> QED
      BY <3>2, <3>3
  <2>3. ASSUME NEW d \in Talkers, FrameArrives(d) PROVE Placed(c)' /\ Sorted(c)'
    <3>1. /\ UNCHANGED <<delivered, holder, frames, batch, sent, overtaken>>
          /\ d # c => inflight'[c] = inflight[c] /\ spoken'[c] = spoken[c]
      BY <2>3 DEF FrameArrives, launchVars, TypeOK
    <3>2. CASE d # c
      BY <3>1, <3>2, AudioStays
    <3>3. CASE d = c
      <4>1. /\ spoken'[c] = spoken[c] + 1
            /\ inflight'[c] \subseteq inflight[c] \cup {spoken[c] + 1}
        BY <2>3, <3>3 DEF FrameArrives, TypeOK
      <4>2. Placed(c) /\ Sorted(c) /\ Heard(c)' = Heard(c) /\ spoken[c] \in Nat
        BY <3>1, TalkerType, Constants DEF AudioInv, Heard
      <4>3. Placed(c)'
        BY <3>1, <4>1, <4>2 DEF Placed, First
      <4>4. Sorted(c)'
        BY <3>1, <4>2 DEF Sorted, First
      <4> QED
        BY <4>3, <4>4
    <3> QED
      BY <3>2, <3>3
  <2>4. ASSUME NEW d \in Talkers, StoreFrame(d) PROVE Placed(c)' /\ Sorted(c)'
    <3>1. UNCHANGED <<delivered, holder, batch, sent, spoken>>
      BY <2>4 DEF StoreFrame, launchVars
    <3>2. CASE d # c
      BY <2>4, <3>1, <3>2, AudioStays DEF StoreFrame, TypeOK
    <3>3. CASE d = c
      <4>1. PICK f \in inflight[c] :
              /\ inflight'[c] = inflight[c] \ {f}
              /\ frames'[c] = frames[c] \cup {f}
              /\ overtaken'[c] = IF \E g \in Taken(c) : g > f
                                 THEN overtaken[c] \cup {f} ELSE overtaken[c]
        BY <2>4, <3>3 DEF StoreFrame, TypeOK
      <4>2. Placed(c) /\ Sorted(c) /\ Heard(c)' = Heard(c)
        BY <3>1 DEF AudioInv, Heard
      <4>3. Heard(c) \cup batch[h] \subseteq Taken(c)
        BY <2>0 DEF Taken, Heard
      <4>4. f \in Nat /\ Heard(c) \cup batch[h] \subseteq Nat
        BY <2>h, TalkerType
      <4>5. \A g \in Heard(c) \cup batch[h] : g # f
        BY <2>h, <4>1, <4>2 DEF Placed
      <4>6. \A g \in Heard(c) \cup batch[h] : g < f \/ f \in overtaken'[c]
        BY <4>1, <4>3, <4>4, <4>5
      <4>7. Placed(c)'
        BY <3>1, <4>1, <4>2 DEF Placed, First
      <4>8. Sorted(c)'
        BY <2>h, <3>1, <4>1, <4>2, <4>6 DEF Sorted, First
      <4> QED
        BY <4>7, <4>8
    <3> QED
      BY <3>2, <3>3
  <2>5. ASSUME NEW g \in Holders, g # h,
               \/ OpenStream(g) \/ OpenFails(g) \/ TakeFrames(g) \/ ClearFrames(g)
               \/ SendFrame(g) \/ PumpRaises(g) \/ DeadlineReached(g)
               \/ StreamClosed(g) \/ CleanUp(g) \/ Die(g)
        PROVE  Placed(c)' /\ Sorted(c)'
    <3>1. delivered'[c] = delivered[c] /\ holder'[h] = holder[h] /\ holder[g] # "none"
      BY <2>0, <2>5, HolderStep DEF Live, Talking
    <3>2. Conn(g) # c
      <4> SUFFICES ASSUME Conn(g) = c PROVE FALSE
        OBVIOUS
      <4>1. g[2] = 2 /\ g[2] <= delivered[c]
        BY <2>0, <2>5, <3>1 DEF LaunchInv
      <4> QED
        BY <3>1, <4>1, TalkerType
    <3>3. /\ inflight'[c] = inflight[c] /\ frames'[c] = frames[c] /\ sent'[c] = sent[c]
          /\ overtaken'[c] = overtaken[c] /\ spoken'[c] = spoken[c]
          /\ batch'[h] = batch[h]
      BY <2>0, <2>5, <3>2 DEF OpenStream, OpenFails, TakeFrames, ClearFrames, SendFrame,
         PumpRaises, DeadlineReached, StreamClosed, CleanUp, Die, audioVars, TypeOK
    <3> QED
      BY <2>h, <3>1, <3>3, AudioStays
  <2>6. CASE \/ OpenStream(h) \/ OpenFails(h) \/ DeadlineReached(h) \/ StreamClosed(h)
             \/ CleanUp(h)
    <3>1. /\ UNCHANGED <<delivered, audioVars>>
          /\ holder[h] \notin {"taken", "sending"}
      BY <2>6 DEF OpenStream, OpenFails, DeadlineReached, StreamClosed, CleanUp
    <3> QED
      BY <2>h, <3>1, AudioStays DEF audioVars
  <2>7. CASE TakeFrames(h)
    <3>1. /\ UNCHANGED <<delivered, inflight, frames, sent, overtaken, spoken>>
          /\ batch'[h] = frames[c] /\ holder[h] = "streaming" /\ holder'[h] = "taken"
      BY <2>0, <2>7 DEF TakeFrames, Become, TypeOK
    <3>2. Placed(c) /\ Sorted(c) /\ Heard(c)' = Heard(c) /\ batch[h] = {}
      BY <2>h, <3>1 DEF AudioInv, Placed, Heard
    <3> QED
      BY <2>h, <3>1, <3>2 DEF Placed, Sorted, First
  <2>8. CASE ClearFrames(h)
    <3>1. /\ UNCHANGED <<delivered, inflight, batch, sent, overtaken, spoken>>
          /\ holder[h] = "taken" /\ holder'[h] = "sending"
          /\ frames'[c] = frames[c] \ batch[h]
      BY <2>0, <2>8 DEF ClearFrames, Become, TypeOK
    <3>2. Placed(c) /\ Sorted(c) /\ Heard(c)' = Heard(c)
      BY <3>1 DEF AudioInv, Heard
    <3> QED
      BY <2>h, <3>1, <3>2 DEF Placed, Sorted, First
  <2>9. CASE PumpRaises(h) \/ Die(h)
    <3>1. /\ UNCHANGED <<delivered, inflight, frames, sent, overtaken, spoken>>
          /\ batch'[h] = {}
      BY <2>0, <2>9 DEF PumpRaises, Die, TypeOK
    <3>2. Placed(c) /\ Sorted(c) /\ Heard(c)' = Heard(c)
      BY <3>1 DEF AudioInv, Heard
    <3>3. \A f \in frames[c], g \in Heard(c) : g < f \/ f \in overtaken[c]
      BY <2>h, <3>2 DEF Sorted
    <3>4. Placed(c)'
      BY <2>h, <3>1, <3>2 DEF Placed, First
    <3>5. Sorted(c)'
      BY <2>h, <3>1, <3>2, <3>3 DEF Sorted, First
    <3> QED
      BY <3>4, <3>5
  <2>10. CASE SendFrame(h)
    <3> DEFINE f == NextFrame(h)
    <3>1. /\ f \in batch[h] /\ \A g \in batch[h] : f <= g
      BY <2>0, <2>10, NextFrameIsFirst DEF SendFrame
    <3> HIDE DEF f
    <3>2. /\ UNCHANGED <<delivered, inflight, frames, overtaken, spoken>>
          /\ batch'[h] = batch[h] \ {f} /\ sent'[c] = Append(sent[c], f)
          /\ holder[h] = "sending"
          /\ holder'[h] = IF batch[h] = {f} THEN "streaming" ELSE "sending"
      BY <2>0, <2>10 DEF SendFrame, Become, TypeOK, f
    <3>3. Placed(c) /\ Sorted(c)
      BY <3>2 DEF AudioInv
    <3>4. f \in 1..MaxFrames /\ f \in Nat /\ batch[h] \in SUBSET Nat
      BY <2>0, <3>1, Constants DEF TypeOK
    <3>5. /\ Len(sent'[c]) = Len(sent[c]) + 1
          /\ \A i \in 1..Len(sent[c]) : sent'[c][i] = sent[c][i]
          /\ sent'[c][Len(sent[c]) + 1] = f
      BY <3>2, <3>4, TalkerType, AppendProperties
    <3>6. Heard(c)' = Heard(c) \cup {f}
      <4>1. 1..Len(sent'[c]) = (1..Len(sent[c])) \cup {Len(sent[c]) + 1}
        BY <3>5, TalkerType
      <4>2. Heard(c)' = {sent'[c][i] : i \in (1..Len(sent[c])) \cup {Len(sent[c]) + 1}}
        BY <4>1 DEF Heard
      <4> QED
        BY <3>5, <4>2 DEF Heard
    <3>7. \A g \in batch[h] \ {f} : f < g
      BY <3>1, <3>4
    <3>8. Placed(c)'
      BY <2>h, <3>1, <3>2, <3>3, <3>6, ZenonT(60) DEF Placed, First
    <3>9. /\ \A b \in batch'[h], g \in Heard(c)' : g < b \/ b \in overtaken'[c]
          /\ \A b \in frames'[c] \ batch'[h], g \in Heard(c)' \cup batch'[h] :
                g < b \/ b \in overtaken'[c]
      <4>1. frames[c] \cap batch[h] = {}
        BY <2>h, <3>2, <3>3 DEF Placed
      <4>2. /\ \A b \in batch[h], g \in Heard(c) : g < b \/ b \in overtaken[c]
            /\ \A b \in frames[c] \ batch[h], g \in Heard(c) \cup batch[h] :
                  g < b \/ b \in overtaken[c]
        BY <2>h, <3>3 DEF Sorted
      <4> QED
        BY <3>1, <3>2, <3>6, <3>7, <4>1, <4>2
    <3>10. \A i, j \in 1..Len(sent'[c]) : i < j =>
              sent'[c][i] < sent'[c][j]
                \/ (sent'[c][i] > sent'[c][j] /\ sent'[c][j] \in overtaken'[c])
      <4> SUFFICES ASSUME NEW i \in 1..Len(sent'[c]), NEW j \in 1..Len(sent'[c]), i < j
                   PROVE  sent'[c][i] < sent'[c][j]
                            \/ (sent'[c][i] > sent'[c][j] /\ sent'[c][j] \in overtaken'[c])
        OBVIOUS
      <4>1. i \in 1..Len(sent[c]) /\ sent'[c][i] = sent[c][i]
        BY <3>5, TalkerType
      <4>2. CASE j \in 1..Len(sent[c])
        BY <3>2, <3>3, <3>5, <4>1, <4>2 DEF Sorted
      <4>3. CASE j = Len(sent[c]) + 1
        <5>1. sent[c][i] \in Heard(c) /\ sent[c][i] \in Nat /\ sent'[c][j] = f
          BY <3>5, <4>1, <4>3, TalkerType
        <5>2. sent[c][i] < f \/ f \in overtaken[c]
          BY <2>h, <3>1, <3>3, <5>1 DEF Sorted
        <5>3. sent[c][i] # f
          BY <2>h, <3>1, <3>3, <5>1 DEF Placed
        <5> QED
          BY <3>2, <3>4, <4>1, <5>1, <5>2, <5>3
      <4> QED
        BY <3>5, <4>2, <4>3, TalkerType
    <3>11. Sorted(c)'
      BY <2>h, <3>9, <3>10 DEF Sorted, First
    <3> QED
      BY <3>8, <3>11
  <2>11. ASSUME NEW d \in Conns, NEW t \in Tokens, Unauthorised(d, t) \/ Connect(d, t)
         PROVE  UNCHANGED <<delivered, holder, audioVars>>
    BY <2>11 DEF Unauthorised, Connect, launchVars
  <2>12. ASSUME NEW d \in Conns, \/ PutSession(d) \/ LaunchSession(d) \/ HangUp(d)
                                 \/ Disconnect(d) \/ Purge(d)
         PROVE  UNCHANGED <<delivered, holder, audioVars>>
    BY <2>12 DEF PutSession, LaunchSession, HangUp, Disconnect, Purge, launchVars
  <2>13. CASE Tick \/ UNCHANGED vars
    BY <2>1, <2>13 DEF Tick, vars, launchVars
  <2> QED
    BY <2>0, <2>1, <2>2, <2>3, <2>4, <2>5, <2>6, <2>7, <2>8, <2>9, <2>10, <2>11, <2>12,
       <2>13, NextCases
<1> QED
  BY <1>1, <1>2, TypeCorrect, LaunchInvCorrect, PTL DEF Spec

\* For any number of frames, served by one holder: each frame reaches the
\* model at most once and in the client's order, except one stored after a
\* later frame was already taken (relay.py order_frames).
THEOREM AudioInOrder == Spec => []AudioOnceInOrder
<1>1. TypeOK /\ AudioInv => AudioOnceInOrder
  BY DEF AudioInv, Sorted, AudioOnceInOrder
<1> QED
  BY <1>1, TypeCorrect, AudioInvCorrect, PTL

-----------------------------------------------------------------------------
(***************************************************************************)
(* Slots run out                                                           *)
(*                                                                         *)
(* What SlotsComeBack rests on, short of time passing: a slot is taken     *)
(* once, for a bounded time, and nothing anybody does later prolongs it.   *)
(***************************************************************************)

\* A connection before its row.
Entering == {"out", "counted"}

\* A slot is counted for one session and its grace at most, from now on: a
\* $connect that put its row late has not made it last longer.
SlotsAreBounded == \A c \in Conns : row[c] <= now + MaxSession + Grace

\* A connection past its put_session never comes back before it, and its row
\* is left as it is or goes: a slot is neither prolonged nor taken again,
\* whatever is redelivered, crashes or arrives late.
SlotsAreTakenOnce ==
    [][\A c \in Conns : conn[c] \notin Entering =>
          conn'[c] \notin Entering /\ row'[c] \in {row[c], 0}]_vars

TermInv ==
    \A c \in Conns :
        /\ deadline[c] <= now + MaxSession
        /\ conn[c] \in Entering => row[c] = 0
        /\ row[c] \in {0, deadline[c] + Grace}

\* The three ways a step may treat a connection's slot.
Admitted(c) ==
    /\ conn[c] = "out"
    /\ row'[c] = row[c]
    /\ deadline'[c] \in {deadline[c], now + MaxSession}

Slots(c) ==
    /\ conn[c] = "counted" /\ conn'[c] = "put"
    /\ row'[c] = deadline[c] + Grace /\ deadline'[c] = deadline[c]

Keeps(c) ==
    /\ row'[c] \in {row[c], 0} /\ deadline'[c] = deadline[c]
    /\ conn[c] \in Entering <=> conn'[c] \in Entering

LEMMA SlotStep ==
    ASSUME TypeOK, [Next]_vars
    PROVE  /\ now' >= now
           /\ \A c \in Conns : Admitted(c) \/ Slots(c) \/ Keeps(c)
<1> DEFINE Fine == now' = now /\ \A c \in Conns : Admitted(c) \/ Slots(c) \/ Keeps(c)
<1>1. ASSUME NEW c \in Conns, NEW t \in Tokens, Unauthorised(c, t) \/ Connect(c, t)
      PROVE  Fine
  <2>1. UNCHANGED <<now, row>> /\ conn[c] = "out"
    BY <1>1 DEF Unauthorised, Connect
  <2>2. \/ UNCHANGED deadline
        \/ deadline' = [deadline EXCEPT ![c] = now + MaxSession]
    BY <1>1 DEF Unauthorised, Connect
  <2>3. \A d \in Conns : d # c => conn'[d] = conn[d]
    BY <1>1 DEF Unauthorised, Connect, TypeOK
  <2>4. Admitted(c)
    BY <2>1, <2>2 DEF Admitted, TypeOK
  <2>5. \A d \in Conns : d # c => Keeps(d)
    BY <2>1, <2>2, <2>3 DEF Keeps, TypeOK
  <2> QED
    BY <2>1, <2>4, <2>5
<1>2. ASSUME NEW c \in Conns, PutSession(c) PROVE Fine
  <2>1. Slots(c)
    BY <1>2 DEF PutSession, Slots, TypeOK
  <2>2. \A d \in Conns : d # c => Keeps(d)
    BY <1>2 DEF PutSession, Keeps, TypeOK
  <2> QED
    BY <1>2, <2>1, <2>2 DEF PutSession
<1>3. ASSUME NEW c \in Conns,
             LaunchSession(c) \/ HangUp(c) \/ Disconnect(c) \/ Purge(c) \/ Deliver(c)
      PROVE  Fine
  <2>1. /\ UNCHANGED <<now, deadline>>
        /\ \A d \in Conns : row'[d] \in {row[d], 0}
        /\ \A d \in Conns : conn[d] \in Entering <=> conn'[d] \in Entering
    BY <1>3 DEF LaunchSession, HangUp, Disconnect, Purge, Deliver, Entering, TypeOK,
       socketVars
  <2> QED
    BY <2>1 DEF Keeps
<1>4. ASSUME NEW c \in Talkers, FrameArrives(c) \/ StoreFrame(c) PROVE Fine
  BY <1>4 DEF FrameArrives, StoreFrame, Keeps, socketVars
<1>5. ASSUME NEW h \in Holders,
             \/ OpenStream(h) \/ OpenFails(h) \/ TakeFrames(h) \/ ClearFrames(h)
             \/ SendFrame(h) \/ PumpRaises(h) \/ DeadlineReached(h)
             \/ StreamClosed(h) \/ CleanUp(h) \/ Die(h)
      PROVE  Fine
  <2>1. /\ UNCHANGED <<now, deadline>>
        /\ \A c \in Conns : conn'[c] # conn[c] => conn[c] = "up" /\ conn'[c] = "closing"
    BY <1>5, HolderStep
  <2>2. \A c \in Conns : row'[c] \in {row[c], 0}
    BY <1>5 DEF OpenStream, OpenFails, TakeFrames, ClearFrames, SendFrame, PumpRaises,
       DeadlineReached, StreamClosed, CleanUp, Die, TypeOK
  <2>3. \A c \in Conns : conn[c] \in Entering <=> conn'[c] \in Entering
    BY <2>1 DEF Entering
  <2> QED
    BY <2>1, <2>2, <2>3 DEF Keeps
<1>6. CASE Tick \/ UNCHANGED vars
  BY <1>6 DEF Tick, vars, Keeps, socketVars, TypeOK
<1>7. now \in Int
  BY DEF TypeOK
<1> HIDE DEF Fine
<1>8. Fine => now' >= now /\ \A c \in Conns : Admitted(c) \/ Slots(c) \/ Keeps(c)
  BY <1>7 DEF Fine
<1> QED
  BY <1>1, <1>2, <1>3, <1>4, <1>5, <1>6, <1>8, NextCases

LEMMA TermInvCorrect == Spec => []TermInv
<1>1. Init => TermInv
  BY Constants DEF Init, TermInv
<1>2. TypeOK /\ TypeOK' /\ TermInv /\ [Next]_vars => TermInv'
  <2> SUFFICES ASSUME TypeOK, TypeOK', TermInv, [Next]_vars, NEW c \in Conns
               PROVE  /\ deadline'[c] <= now' + MaxSession
                      /\ conn'[c] \in Entering => row'[c] = 0
                      /\ row'[c] \in {0, deadline'[c] + Grace}
    BY DEF TermInv
  <2>1. /\ now \in Nat /\ now' \in Nat /\ now' >= now
        /\ row[c] \in Nat /\ deadline[c] \in Nat
    BY SlotStep DEF TypeOK
  <2>2. /\ deadline[c] <= now + MaxSession
        /\ conn[c] \in Entering => row[c] = 0
        /\ row[c] \in {0, deadline[c] + Grace}
    BY DEF TermInv
  <2>3. CASE Admitted(c)
    BY <2>1, <2>2, <2>3, Constants DEF Admitted, Entering
  <2>4. CASE Slots(c)
    BY <2>1, <2>2, <2>4, Constants DEF Slots, Entering
  <2>5. CASE Keeps(c)
    BY <2>1, <2>2, <2>5, Constants DEF Keeps
  <2> QED
    BY <2>3, <2>4, <2>5, SlotStep
<1> QED
  BY <1>1, <1>2, TypeCorrect, PTL DEF Spec

\* For any connections, cap, session length and grace: the session row of a
\* connection counts against the cap for no longer than one session and its
\* grace from now (handler.py _connect, put_session).
THEOREM SlotsBounded == Spec => []SlotsAreBounded
<1>1. TypeOK /\ TermInv => SlotsAreBounded
  <2> SUFFICES ASSUME TypeOK, TermInv, NEW c \in Conns
               PROVE  row[c] <= now + MaxSession + Grace
    BY DEF SlotsAreBounded
  <2>1. now \in Nat /\ row[c] \in Nat /\ deadline[c] \in Nat
    BY DEF TypeOK
  <2> QED
    BY <2>1, Constants DEF TermInv
<1> QED
  BY <1>1, TermInvCorrect, TypeCorrect, PTL

\* For any connections and redeliveries: no connection takes a slot twice, and
\* nothing prolongs the one it has (handler.py put_session, delete_session).
THEOREM SlotsTakenOnce == Spec => SlotsAreTakenOnce
<1>1. TypeOK /\ [Next]_vars =>
        \A c \in Conns : conn[c] \notin Entering =>
            conn'[c] \notin Entering /\ row'[c] \in {row[c], 0}
  BY SlotStep DEF Admitted, Slots, Keeps, Entering
<1> QED
  BY <1>1, TypeCorrect, PTL DEF Spec, SlotsAreTakenOnce
=============================================================================
