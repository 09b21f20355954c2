CONSTANTS
    DecodingTimedOut = DecodingTimedOut
    IOError = IOError
    RequestsBufferSize <- MCRequestsBufferSize
    ResponsesBufferSize <- MCResponsesBufferSize
    MaxInbound <- MCMaxInbound
    MaxMsgs <- MCMaxMsgs
    SingleThreaded <- MCSingleThreaded

SPECIFICATION Spec

\* The connection ends for good once every task has ended, and it waits
\* for the peer or the application whenever they stop; the liveness
\* properties below catch a task that is stuck.
CHECK_DEADLOCK FALSE

INVARIANTS
    TypeOK
    TryUpdateIsMeet

PROPERTIES
    NoResponseLost
    ShutdownCompletes
    SplitterNeverStuck
    ImplementsConnectionState
