\* The user passes frame_max 0 ("no preference") and so does the broker.
CONSTANTS
    ClientFrameMaxes = {0}
    ServerFrameMaxes = {0}
    BodyLengths = {1}
SPECIFICATION Spec
INVARIANT MaxPiecePositive
CHECK_DEADLOCK FALSE
