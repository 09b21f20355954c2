---------------------------- MODULE MCConnection ----------------------------
(***************************************************************************)
(* Model of Connection for TLC.  The error causes are model values; the   *)
(* channel buffers are 0, so each bounded channel holds one message (the  *)
(* sender's own slot) and the splitter blocks on the second; two peer     *)
(* items and two outgoing messages let a request, a response and a bad    *)
(* request race a state change.  The tasks run on a thread pool.          *)
(***************************************************************************)
EXTENDS Connection

MCRequestsBufferSize == 0
MCResponsesBufferSize == 0
MCMaxInbound == 2
MCMaxMsgs == 2
MCSingleThreaded == FALSE

=============================================================================
