\* Two Connection objects in one process, sharing the CallbackManager
\* singleton.
CONSTANTS
    Conns = {c1, c2}
    ClientChannelMax = 0
    ServerChannelMax = 0
    MaxChannelNumber = 1
    MaxConnects = 1
    MaxFailures = 0
    BrokerMayForceClose = FALSE
    BrokerMayRefuseOpen = FALSE
SPECIFICATION Spec
CONSTRAINT ConnectsBound
INVARIANT OpenAgreesWithBroker
CHECK_DEADLOCK FALSE
