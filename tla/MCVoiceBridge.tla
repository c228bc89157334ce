--------------------------- MODULE MCVoiceBridge ---------------------------
(***************************************************************************)
(* Two connections, one slot, sessions of one tick.                        *)
(***************************************************************************)
EXTENDS VoiceBridge

\* A good token that expires during the run, and one token per reason the
\* gate has to refuse it from the start.
GoodToken == [signed |-> TRUE, scope |-> "voice", approved |-> TRUE, exp |-> 1]

MCTokens ==
    {GoodToken, [GoodToken EXCEPT !.signed = FALSE],
     [GoodToken EXCEPT !.scope = "session"],
     [GoodToken EXCEPT !.approved = FALSE],
     [GoodToken EXCEPT !.exp = 0]}
=============================================================================
