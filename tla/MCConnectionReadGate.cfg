CONSTANTS
    DecodingTimedOut = DecodingTimedOut
    IOError = IOError
    RequestsBufferSize <- MCRequestsBufferSize
    ResponsesBufferSize <- MCResponsesBufferSize
    MaxInbound <- MCMaxInbound
    MaxMsgs <- MCMaxMsgs
    SingleThreaded <- MCSingleThreaded

SPECIFICATION Spec

\* The connection may stop for good; see MCConnection.cfg.
CHECK_DEADLOCK FALSE

PROPERTIES
    ReadGate
