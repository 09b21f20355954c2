---------------------------- MODULE CallOutcome ----------------------------
(***************************************************************************)
(* What `send_request` promises its caller (spec 4.7, I4, P4), with the   *)
(* correlator and its channels left out.  A call is made once, waits, and *)
(* then ends with exactly one result, and every result has its cause:     *)
(*   - Ok(response) only for a request the peer has answered;              *)
(*   - None or a cancelled one-shot only once no response can come any     *)
(*     more, because the incoming-response stream has ended;               *)
(*   - a timeout at any moment.                                           *)
(* 100 Continue leaves the call waiting.                                   *)
(***************************************************************************)
CONSTANT Calls

VARIABLES
    call,        \* call[c]: "idle", "waiting", or the result it ended with
    answered,    \* the calls the peer has sent a final response for
    streamOpen   \* the incoming-response stream has not ended

vars == <<call, answered, streamOpen>>

Results == {"ok", "none", "cancelled", "timedout"}

Init ==
    /\ call = [c \in Calls |-> "idle"]
    /\ answered = {}
    /\ streamOpen = TRUE

Send(c) ==
    /\ call[c] = "idle"
    /\ call' = [call EXCEPT ![c] = "waiting"]
    /\ UNCHANGED <<answered, streamOpen>>

Answer(c) ==
    /\ call[c] # "idle" /\ streamOpen
    /\ answered' = answered \cup {c}
    /\ UNCHANGED <<call, streamOpen>>

EndStream ==
    /\ streamOpen /\ streamOpen' = FALSE
    /\ UNCHANGED <<call, answered>>

\* The cause each result needs.
Justified(c, r) ==
    CASE r = "ok"                   -> c \in answered
      [] r \in {"none", "cancelled"} -> ~streamOpen
      [] r = "timedout"             -> TRUE

Resolve(c) ==
    /\ call[c] = "waiting"
    /\ \E r \in Results :
          /\ Justified(c, r)
          /\ call' = [call EXCEPT ![c] = r]
    /\ UNCHANGED <<answered, streamOpen>>

Next ==
    \/ \E c \in Calls : Send(c) \/ Answer(c) \/ Resolve(c)
    \/ EndStream

Spec == Init /\ [][Next]_vars

=============================================================================
