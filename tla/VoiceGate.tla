----------------------------- MODULE VoiceGate -----------------------------
(***************************************************************************)
(* What the voice bridge promises about who may talk to the model: a       *)
(* connection gets a badge only by showing a token that is genuine, and    *)
(* only a connection with a badge ever has model streams open.             *)
(***************************************************************************)
EXTENDS Naturals

CONSTANTS Conns, Tokens, Genuine(_), NoToken

VARIABLES badge, streams

Init ==
    /\ badge = [c \in Conns |-> NoToken]
    /\ streams = [c \in Conns |-> 0]

Admit(c) ==
    /\ badge[c] = NoToken
    /\ \E t \in Tokens :
        /\ Genuine(t)
        /\ badge' = [badge EXCEPT ![c] = t]
    /\ UNCHANGED streams

Open(c) ==
    /\ badge[c] # NoToken
    /\ streams' = [streams EXCEPT ![c] = @ + 1]
    /\ UNCHANGED badge

Close(c) ==
    /\ streams[c] > 0
    /\ streams' = [streams EXCEPT ![c] = @ - 1]
    /\ UNCHANGED badge

Next == \E c \in Conns : Admit(c) \/ Open(c) \/ Close(c)

Spec == Init /\ [][Next]_<<badge, streams>>
=============================================================================
