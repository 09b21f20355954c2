CONSTANTS
    DecodingTimedOut = DecodingTimedOut
    IOError = IOError
    RequestsBufferSize <- MCRequestsBufferSize
    ResponsesBufferSize <- MCResponsesBufferSize
    MaxInbound <- MCMaxInbound
    MaxMsgs <- MCMaxMsgs
    SingleThreaded <- MCSingleThreaded

SPECIFICATION Spec

CHECK_DEADLOCK FALSE

PROPERTIES
    WriteGate
