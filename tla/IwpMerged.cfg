\* The handshake, the LIM exchange with each LIM cut into two fragments,
\* and one link message from B to A.
CONSTANTS
    MaxMsgs = 2
    NumFrags = 2
    MaxSendQueueSize = 1
    MaxInFlight = 2
    Senders = {"B"}
SPECIFICATION Spec
CONSTRAINT InFlightBound
INVARIANT TypeOK
INVARIANT NoDuplicateDelivery
INVARIANT SuccessImpliesDelivered
INVARIANT LIMsExchanged
PROPERTY HandshakeResolves
