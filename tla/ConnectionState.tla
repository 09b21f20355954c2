-------------------------- MODULE ConnectionState --------------------------
(***************************************************************************)
(* What the protocol state promises the rest of the engine (spec I1, I5),*)
(* with the tasks left out: each half of the state only narrows, i.e. a  *)
(* later value never permits a direction the earlier one did not, an     *)
(* Error is final, and no message reaches the peer once the write half is *)
(* None or Error.  Several changes may happen in one step, as            *)
(* `update_state` makes them under one lock.                               *)
(***************************************************************************)
CONSTANTS
    Errors,   \* the error causes an Error(e) can carry
    Msgs      \* the messages that may be written, records with a kind

LOCAL PS == INSTANCE ProtocolState

VARIABLES read, write, sent

vars == <<read, write, sent>>

Permitted(s) ==
    {k \in {"req", "resp"} :
        IF k = "req" THEN PS!RequestsAllowed(s) ELSE PS!ResponsesAllowed(s)}

\* `new` is the same as `cur` or lies below it: an Error stays, anything
\* else may become an Error or a state permitting no more than it did.
NarrowerOrEqual(new, cur) ==
    IF PS!IsError(cur) THEN new = cur
    ELSE PS!IsError(new) \/ Permitted(new) \subseteq Permitted(cur)

Init == read = "All" /\ write = "All" /\ sent = {}

Narrow ==
    /\ \E r, w \in PS!HalfStates :
          /\ NarrowerOrEqual(r, read) /\ NarrowerOrEqual(w, write)
          /\ read' = r /\ write' = w
    /\ UNCHANGED sent

Write(m) ==
    /\ ~PS!Closed(write)
    /\ sent' = sent \cup {m}
    /\ UNCHANGED <<read, write>>

Next == Narrow \/ \E m \in Msgs : Write(m)

Spec == Init /\ [][Next]_vars

=============================================================================
