\* One connection, reconnected once by its user and then closed by it.
CONSTANTS
    Conns = {c1}
    ClientChannelMax = 0
    ServerChannelMax = 0
    MaxChannelNumber = 1
    MaxConnects = 3
    MaxFailures = 0
    BrokerMayForceClose = FALSE
    BrokerMayRefuseOpen = FALSE
SPECIFICATION Spec
CONSTRAINT ConnectsBound
PROPERTY UserCloseIsFinal
CHECK_DEADLOCK FALSE
