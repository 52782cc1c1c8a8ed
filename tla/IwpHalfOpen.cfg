\* Does every session leave LinkIntro?
CONSTANTS
    MaxMsgs = 1
    NumFrags = 1
    MaxSendQueueSize = 1
    MaxInFlight = 2
    Senders = {"B"}
SPECIFICATION Spec
CONSTRAINT InFlightBound
PROPERTY HandshakeResolves
