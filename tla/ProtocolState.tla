--------------------------- MODULE ProtocolState ---------------------------
(***************************************************************************)
(* The shared protocol state of an RTSP connection (protocol.rs,           *)
(* `state_type!`, `ProtocolState`): a read half and a write half, each    *)
(* one of All, Request, Response, None or Error(e), guarded by one mutex   *)
(* and published on a state-change channel after every change.           *)
(*                                                                         *)
(* This module holds no variables.  A half-state value is a string for the *)
(* four plain variants and the cause e itself (a model value) for        *)
(* Error(e).  The                                                          *)
(* locked operations are functions from a record                           *)
(*   [read |-> r, write |-> w, notes |-> <<pairs published>>]              *)
(* to the record after the call, so that a task's action can apply the     *)
(* whole critical section in one step.                                     *)
(***************************************************************************)
EXTENDS Sequences

CONSTANT Errors      \* the error causes an Error(e) can carry

Plain == {"All", "Request", "Response", "None"}

Error(e) == e

HalfStates == Plain \cup Errors

IsError(s) == s \in Errors

\* `requests_allowed` and `responses_allowed`.
RequestsAllowed(s) == s \in {"All", "Request"}

ResponsesAllowed(s) == s \in {"All", "Response"}

\* Neither direction is allowed any more: None or Error(_).
Closed(s) == s = "None" \/ IsError(s)

\* Mutant of TryUpdateState: a later error overwrites an earlier one.
TryUpdateStateErrorOverwrites(cur, new) ==
    CASE new = "All"      -> cur
      [] new = "Request"  -> IF cur = "All" THEN "Request"
                             ELSE IF cur = "Response" THEN "None" ELSE cur
      [] new = "Response" -> IF cur = "All" THEN "Response"
                             ELSE IF cur = "Request" THEN "None" ELSE cur
      [] new = "None"     -> IF ~Closed(cur) THEN "None" ELSE cur
      [] OTHER            -> new

\* Mutant of TryUpdateState: Request and Response replace the other one
\* instead of narrowing to None.
TryUpdateStateNoIntersect(cur, new) ==
    CASE new = "All"                    -> cur
      [] new \in {"Request", "Response"} -> IF ~Closed(cur) THEN new ELSE cur
      [] new = "None"                   -> IF ~Closed(cur) THEN "None" ELSE cur
      [] OTHER                          -> IF ~IsError(cur) THEN new ELSE cur

(***************************************************************************)
(* `try_update_state`: the value the half takes when `new` is proposed.   *)
(* The code returns true exactly when this differs from `cur`.            *)
(***************************************************************************)
TryUpdateState(cur, new) ==
    CASE new = "All"      -> cur
      [] new = "Request"  -> IF cur = "All" THEN "Request"
                             ELSE IF cur = "Response" THEN "None" ELSE cur
      [] new = "Response" -> IF cur = "All" THEN "Response"
                             ELSE IF cur = "Request" THEN "None" ELSE cur
      [] new = "None"     -> IF ~Closed(cur) THEN "None" ELSE cur
      [] OTHER            -> IF ~IsError(cur) THEN new ELSE cur

\* `ProtocolState::new`: both halves All, nothing published.
InitState == [read |-> "All", write |-> "All", notes |-> <<>>]

(***************************************************************************)
(* `update_read_state` / `update_write_state`: on a change, the pair       *)
(* (read, write) after the change is sent on the state-change channel.     *)
(***************************************************************************)
UpdateReadState(st, r) ==
    LET nr == TryUpdateState(st.read, r)
    IN  IF nr = st.read THEN st
        ELSE [st EXCEPT !.read = nr, !.notes = Append(@, <<nr, st.write>>)]

UpdateWriteState(st, w) ==
    LET nw == TryUpdateState(st.write, w)
    IN  IF nw = st.write THEN st
        ELSE [st EXCEPT !.write = nw, !.notes = Append(@, <<st.read, nw>>)]

\* `update_state`: the read half first, then the write half, under one lock;
\* an observer may see the intermediate pair.
UpdateState(st, r, w) == UpdateWriteState(UpdateReadState(st, r), w)

=============================================================================
