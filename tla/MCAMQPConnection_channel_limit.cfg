\* The broker negotiates channel_max = 2; the user opens, closes and
\* reopens channels.
CONSTANTS
    Conns = {c1}
    ClientChannelMax = 0
    ServerChannelMax = 2
    MaxChannelNumber = 3
    MaxConnects = 1
    MaxFailures = 0
    BrokerMayForceClose = FALSE
    BrokerMayRefuseOpen = FALSE
SPECIFICATION Spec
CONSTRAINT ConnectsBound
INVARIANT ChannelNumbersWithinMax
CHECK_DEADLOCK FALSE
