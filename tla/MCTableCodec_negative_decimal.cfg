\* Decimals with a negative mantissa: encoded signed, decoded unsigned.
CONSTANTS
    Base = 8
    Values <- NegativeDecimalValues
SPECIFICATION Spec
INVARIANT RoundTrip
CHECK_DEADLOCK FALSE
