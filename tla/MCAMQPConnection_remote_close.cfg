\* A broker that may force-close an open connection or refuse
\* Connection.Open.
CONSTANTS
    Conns = {c1}
    ClientChannelMax = 0
    ServerChannelMax = 0
    MaxChannelNumber = 1
    MaxConnects = 1
    MaxFailures = 0
    BrokerMayForceClose = TRUE
    BrokerMayRefuseOpen = TRUE
SPECIFICATION Spec
CONSTRAINT ConnectsBound
PROPERTY BrokerCloseAnswered
CHECK_DEADLOCK FALSE
