\* Two transports (one reconnect), up to six frames on each: data may stop
\* at any point of either transport, and the first transport's checker may
\* still be set when the second handshake runs.
CONSTANTS
    MaxArrivals = 6
    MaxConnects = 2
SPECIFICATION Spec
INVARIANTS TypeOK DetectedInTime
PROPERTY DeadPeerDetected
CHECK_DEADLOCK FALSE
