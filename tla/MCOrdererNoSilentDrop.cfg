CONSTANTS
    NoCSeq = NoCSeq
    CSeqBits <- MCCSeqBits
    RequestsBufferSize <- MCRequestsBufferSize
    MaxRequests <- MCMaxRequests

SPECIFICATION Spec

\* The fold ends, or waits for a request, once MaxRequests have come.
CHECK_DEADLOCK FALSE

INVARIANTS
    NoSilentDrop
