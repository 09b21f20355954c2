---------------------------- MODULE MCCorrelator ----------------------------
(* Two calls and a 1-bit CSeq, so the counter wraps after both without a   *)
(* CSeq being reused; one slot of response buffer, so the channel holds    *)
(* two responses; one Continue per call and a repeated final response.    *)
EXTENDS Correlator

CONSTANTS c1, c2, c3

MCCalls == {c1, c2}
MCCSeqBits == 1
MCResponsesBufferSize == 1
MCMaxContinues == 1
MCMaxFinals == 2

\* Three calls on a 1-bit counter: the third reuses the first one's CSeq.
MCCallsWrap == {c1, c2, c3}

=============================================================================
