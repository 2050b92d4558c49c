\* frame_max from no preference, the default 131072, 4096 and a user value
\* below 4096; brokers offering none, a small, an exact and a large one;
\* bodies empty, of one byte, of one piece, one byte over, of exactly two
\* pieces and of three.
CONSTANTS
    ClientFrameMaxes = {0, 9, 4096, 131072}
    ServerFrameMaxes = {0, 100, 4096, 5000}
    BodyLengths = {0, 1, 4088, 4089, 8176, 10000}
SPECIFICATION Spec
INVARIANT FragmentsMatchReference
CHECK_DEADLOCK FALSE
