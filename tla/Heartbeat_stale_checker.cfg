\* The checker of the first transport, still set after a reconnect, against
\* the second transport's counter.
CONSTANTS
    MaxArrivals = 4
    MaxConnects = 2
SPECIFICATION Spec
INVARIANT TearsDownOwnTransport
CHECK_DEADLOCK FALSE
