------------------------- MODULE ContentFragmentation -------------------------
(***************************************************************************)
(* The frames Connection.send_method emits for one call, and the frame_max *)
(* they are cut to (pika/connection.py).  A body is abstracted to its      *)
(* length: the code reads it front to back, so a body piece is the length *)
(* it takes from the front of what is left.                                *)
(*                                                                         *)
(* HEADER_SIZE, FOOTER_SIZE and ConnectionState.tune belong to             *)
(* pika/codec.py, which is not in the sources; they follow the spec        *)
(* (sections 4.4 and 4.5).                                                 *)
(***************************************************************************)
EXTENDS Naturals, Sequences

\* codec.ConnectionState.HEADER_SIZE and FOOTER_SIZE.
HEADER_SIZE == 7
FOOTER_SIZE == 1

\* connection.FRAME_MAX, the default of ConnectionParameters.frame_max.
FRAME_MAX == 131072

\* _combine(a, b): 0 means no preference.
Combine(a, b) ==
    IF a = 0 THEN b ELSE IF b = 0 THEN a ELSE IF a < b THEN a ELSE b

\* ConnectionState.tune: a non-zero frame_max below 4096 is raised to 4096.
StateTuneFrameMax(fmax) == IF fmax # 0 /\ fmax < 4096 THEN 4096 ELSE fmax

\* max_piece = state.frame_max - HEADER_SIZE - FOOTER_SIZE
MaxPiece(frameMax) == frameMax - HEADER_SIZE - FOOTER_SIZE

\* while body_buf: piece_len = min(len(body_buf), max_piece); consume it.
\* Defined for a positive max_piece only: what read_and_consume does with
\* a size of zero or less is SimpleBuffer's, which is not in the sources.
RECURSIVE Loop(_, _)
Loop(rest, maxp) ==
    IF rest = 0 THEN <<>>
    ELSE LET n == IF rest < maxp THEN rest ELSE maxp
         IN <<n>> \o Loop(rest - n, maxp)
\* Mutant: max_piece leaves out the frame footer.
BodyPieces_NoFooter(len, frameMax) == Loop(len, frameMax - HEADER_SIZE)

BodyPieces(len, frameMax) == Loop(len, MaxPiece(frameMax))

\* A call's content: none, a bare body (not a tuple), or (props, body).
\* hasProps is the truth of props, len the length of body.
Content(kind, hasProps, len) == [kind |-> kind, props |-> hasProps, len |-> len]

\* send_method(channel_number, method, content): the method frame, a
\* header frame when props is true (length 0 when there is no body), then
\* the body pieces when the body is not empty.  A header's size is the
\* body length it announces, a body frame's size its payload.
SendMethodFrames(ch, c, frameMax) ==
    LET props == c.kind = "tuple" /\ c.props
        body  == c.kind # "none" /\ c.len > 0
    IN <<[type |-> "method", ch |-> ch, size |-> 0]>>
       \o (IF props
           THEN <<[type |-> "header", ch |-> ch, size |-> IF body THEN c.len ELSE 0]>>
           ELSE <<>>)
       \o (IF body
           THEN LET p == BodyPieces(c.len, frameMax)
                IN [i \in 1..Len(p) |-> [type |-> "body", ch |-> ch, size |-> p[i]]]
           ELSE <<>>)

\* suggested_buffer_size(): frame_max, or FRAME_MAX when it is 0.
SuggestedBufferSize(frameMax) == IF frameMax = 0 THEN FRAME_MAX ELSE frameMax

\* The spec's split (section 8): ceil(L / (frame_max - 8)) pieces, all of
\* frame_max - 8 bytes but the last, which together are the body in order.
ReferenceSplit(len, frameMax) ==
    LET m == frameMax - 8
        n == (len + m - 1) \div m
    IN [i \in 1..n |-> IF i < n THEN m ELSE len - (n - 1) * m]
=============================================================================
