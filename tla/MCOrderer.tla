----------------------------- MODULE MCOrderer ------------------------------
(***************************************************************************)
(* Model of Orderer for TLC: 3-bit CSeqs (8 values) with a window of 2, so *)
(* that five requests reach a wrap-around, a duplicate, a request behind  *)
(* the expected CSeq and one too far ahead of it.                         *)
(***************************************************************************)
EXTENDS Orderer

MCCSeqBits == 3
MCRequestsBufferSize == 2
MCMaxRequests == 5

=============================================================================
