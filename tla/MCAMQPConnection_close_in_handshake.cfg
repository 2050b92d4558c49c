\* One connection whose user may call close() at any time.
CONSTANTS
    Conns = {c1}
    ClientChannelMax = 0
    ServerChannelMax = 0
    MaxChannelNumber = 1
    MaxConnects = 1
    MaxFailures = 0
    BrokerMayForceClose = FALSE
    BrokerMayRefuseOpen = FALSE
SPECIFICATION Spec
CONSTRAINT ConnectsBound
PROPERTY NothingSentAfterClose
CHECK_DEADLOCK FALSE
