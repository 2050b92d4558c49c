\* Round trip and length accounting over scalars at their width limits,
\* nested dicts and arrays of dicts.  A run ends after one decode.
CONSTANTS
    Base = 8
    Values <- RoundTripValues
SPECIFICATION Spec
INVARIANTS RoundTrip LengthAccounting
CHECK_DEADLOCK FALSE
