\* One connection, up to two channels, one reconnect, one network
\* failure, a broker that may force a close.  Channel limit not negotiated.
CONSTANTS
    Conns = {c1}
    ClientChannelMax = 0
    ServerChannelMax = 0
    MaxChannelNumber = 2
    MaxConnects = 2
    MaxFailures = 1
    BrokerMayForceClose = TRUE
    BrokerMayRefuseOpen = TRUE
SPECIFICATION Spec
CONSTRAINT ConnectsBound
INVARIANT TypeOK
INVARIANT ProtocolRespected
INVARIANT CloseAfterChannelsClosed
INVARIANT OpenAgreesWithBroker
PROPERTY CloseCompletes
PROPERTY Refinement
PROPERTY HandshakeTerminates
CHECK_DEADLOCK FALSE
