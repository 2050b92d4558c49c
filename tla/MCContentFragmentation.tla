------------------------ MODULE MCContentFragmentation ------------------------
(***************************************************************************)
(* One connection's frame_max negotiation (_on_connection_tune with the    *)
(* user's ConnectionParameters.frame_max and the broker's Connection.Tune) *)
(* followed by any number of send_method calls on an open channel.         *)
(***************************************************************************)
EXTENDS ContentFragmentation, FiniteSets, SequencesExt

CONSTANTS
    ClientFrameMaxes,   \* values of ConnectionParameters.frame_max
    ServerFrameMaxes,   \* frame_max values a broker's Connection.Tune offers
    BodyLengths         \* lengths of the bodies users send

\* Every content a caller can pass: None, a bare body, (props, body).
Contents ==
    {Content("none", FALSE, 0)}
    \cup {Content("body", FALSE, l) : l \in BodyLengths}
    \cup {Content("tuple", p, l) : p \in BOOLEAN, l \in BodyLengths}

VARIABLES
    clientFrameMax,  \* parameters.frame_max
    frameMax,        \* state.frame_max
    phase,           \* "start" before Connection.Tune, "tuned" after, "loop"
                     \* once a body met a max_piece below 1
    content,         \* the content of the last send_method call
    sent             \* the frames that call emitted

vars == <<clientFrameMax, frameMax, phase, content, sent>>

Init ==
    /\ clientFrameMax \in ClientFrameMaxes
    /\ frameMax = 0
    /\ phase = "start"
    /\ content = Content("none", FALSE, 0)
    /\ sent = <<>>

\* The frame_max part of _on_connection_tune: combine, then state.tune.
Tune ==
    /\ phase = "start"
    /\ \E s \in ServerFrameMaxes :
           frameMax' = StateTuneFrameMax(Combine(clientFrameMax, s))
    /\ phase' = "tuned"
    /\ UNCHANGED <<clientFrameMax, content, sent>>

\* send_method(1, method, c).  When the body loop would run with a
\* max_piece below 1, the frames before the loop are recorded and the
\* model stops there.
SendMethod ==
    /\ phase = "tuned"
    /\ \E c \in Contents :
         LET loops == c.kind # "none" /\ c.len > 0 /\ MaxPiece(frameMax) < 1
         IN /\ content' = c
            /\ sent' = IF loops THEN SendMethodFrames(1, [c EXCEPT !.len = 0], frameMax)
                       ELSE SendMethodFrames(1, c, frameMax)
            /\ phase' = IF loops THEN "loop" ELSE "tuned"
    /\ UNCHANGED <<clientFrameMax, frameMax>>

Next == Tune \/ SendMethod

Spec == Init /\ [][Next]_vars

-----------------------------------------------------------------------------
Bodies == SelectSeq(sent, LAMBDA f : f.type = "body")

\* The body frames of a send_method call are the spec's split of the body:
\* ceil(L / (frame_max - 8)) pieces of frame_max - 8 bytes but the last,
\* in order; so no frame exceeds frame_max and the pieces make the body.
FragmentsMatchReference ==
    phase = "tuned" /\ Bodies # <<>> =>
        [i \in 1..Len(Bodies) |-> Bodies[i].size] = ReferenceSplit(content.len, frameMax)

\* A body is fragmented with a positive max_piece: the spec uses the
\* default 131072 when frame_max is 0 and requires frame_max >= 9 before
\* fragmenting (sections 4.5 and 9).
MaxPiecePositive == phase # "loop"
=============================================================================
