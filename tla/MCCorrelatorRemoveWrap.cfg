CONSTANTS
    c1 = c1
    c2 = c2
    c3 = c3
    Calls <- MCCallsWrap
    CSeqBits <- MCCSeqBits
    ResponsesBufferSize <- MCResponsesBufferSize
    MaxContinues <- MCMaxContinues
    MaxFinals <- MCMaxFinals
SPECIFICATION Spec
\* Every run ends with the task done and the callers resolved or waiting on
\* a peer that says no more: the system may stop.
CHECK_DEADLOCK FALSE
PROPERTIES
    RemoveHitsSender
