----------------------------- MODULE Connection -----------------------------
(***************************************************************************)
(* The connection core of protocol.rs: the message splitting task         *)
(* (`create_split_messages_task`), the message sending task              *)
(* (`create_send_messages_task`) and the decoding timer task              *)
(* (`create_decoding_timer_task`), all sharing one `ProtocolState`.       *)
(*                                                                         *)
(* Each task is a set of actions; one action is one poll of the task that *)
(* runs to its next suspension point, and every critical section on the   *)
(* state mutex is one step.  Each task that watches state changes has its *)
(* own queue of published (read, write) pairs.                            *)
(*                                                                         *)
(* Environment: the peer (through the codec) produces decoded items and   *)
(* may end or break the stream; the request receiver (the orderer and the *)
(* service behind it) and the response receiver (the correlator) drain    *)
(* their bounded channels or go away; the Handle queues requests and the  *)
(* service driver queues responses until the application drops them.     *)
(***************************************************************************)
EXTENDS Naturals, Sequences, FiniteSets

CONSTANTS
    DecodingTimedOut,     \* Error::DecodingTimedOut
    IOError,              \* Error::IO(_) from the stream or the sink
    RequestsBufferSize,   \* DEFAULT_REQUESTS_BUFFER_SIZE
    ResponsesBufferSize,  \* DEFAULT_RESPONSES_BUFFER_SIZE
    MaxInbound,           \* bound: items the peer sends
    MaxMsgs,              \* bound: outgoing messages queued in total
    SingleThreaded        \* the tasks share one executor thread

INSTANCE ProtocolState WITH Errors <- {DecodingTimedOut, IOError}

ASSUME RequestsBufferSize \in Nat /\ ResponsesBufferSize \in Nat
ASSUME MaxInbound \in Nat /\ MaxMsgs \in Nat /\ SingleThreaded \in BOOLEAN

\* A futures 0.1 bounded channel holds its buffer plus one slot per sender.
RequestCapacity == RequestsBufferSize + 1
ResponseCapacity == ResponsesBufferSize + 1

Subscribers == {"splitter", "sender"}

\* The receivers merged by the sending task.
Sources == {"handle", "service", "internal"}

\* The codec's decoding events.  EncodingStarted and EncodingEnded are left
\* out: the timer passes over them without a change (line 373).
Events == {"DecodingStarted", "DecodingEnded"}

Kinds == {"req", "resp"}

VARIABLES
    read_state, write_state,  \* ProtocolState
    changes,        \* per subscriber: published pairs not yet received
    decoding,       \* the codec has begun a message it has not finished
    events,         \* codec events not yet received by the timer
    received,       \* items the peer has sent so far
    sp_pc,          \* splitter: "run", "blockedReq", "blockedResp", "done"
    sp_req,         \* splitter still holds tx_incoming_request
    sp_resp,        \* splitter still holds tx_incoming_response
    sp_out,         \* splitter still holds tx_outgoing_message
    reqChan,        \* requests in the bounded incoming-request channel
    reqRx,          \* its receiver is alive
    respChan,       \* responses in the bounded incoming-response channel
    respRx,         \* its receiver is alive
    out,            \* per source: queued outgoing messages
    outOpen,        \* the handle and the service still hold their senders
    nextId,         \* identity of the next outgoing message
    written,        \* messages that crossed the sink
    fwd,            \* the message send_all holds for the sink: <<>> or <<m>>
    se_pc,          \* sender: "run" or "done"
    tm_pc,          \* decoding timer: "run" or "done"
    armed           \* the decoding timer holds a deadline

stateVars == <<read_state, write_state, changes>>
codecVars == <<decoding, events, received>>
splitVars == <<sp_pc, sp_req, sp_resp, sp_out>>
chanVars == <<reqChan, reqRx, respChan, respRx>>
outVars == <<out, outOpen, nextId, written, fwd>>
vars == <<stateVars, codecVars, splitVars, chanVars, outVars, se_pc, tm_pc, armed>>

Msgs == [id : 0 .. MaxMsgs, kind : Kinds]

Allowed(s, kind) ==
    IF kind = "req" THEN RequestsAllowed(s) ELSE ResponsesAllowed(s)

TypeOK ==
    /\ read_state \in HalfStates /\ write_state \in HalfStates
    /\ changes \in [Subscribers -> Seq(HalfStates \X HalfStates)]
    /\ decoding \in BOOLEAN /\ events \in Seq(Events)
    /\ received \in 0 .. MaxInbound
    /\ sp_pc \in {"run", "blockedReq", "blockedResp", "done"}
    /\ {sp_req, sp_resp, sp_out, reqRx, respRx, armed} \subseteq BOOLEAN
    /\ reqChan \in 0 .. RequestCapacity /\ respChan \in 0 .. ResponseCapacity
    /\ out \in [Sources -> Seq(Msgs)]
    /\ outOpen \in [{"handle", "service"} -> BOOLEAN]
    /\ nextId \in 0 .. MaxMsgs /\ written \subseteq Msgs
    /\ fwd \in Seq(Msgs) /\ Len(fwd) <= 1
    /\ se_pc \in {"run", "done"} /\ tm_pc \in {"run", "done"}

-----------------------------------------------------------------------------
(* Applying a critical section: `st` is the ProtocolState record after the *)
(* locked calls; its published pairs go to every subscriber whose task is  *)
(* still running after this step (a finished task dropped its receiver). *)

Now == [read |-> read_state, write |-> write_state, notes |-> <<>>]

Commit(st, queues, ending) ==
    /\ read_state' = st.read
    /\ write_state' = st.write
    /\ changes' = [s \in Subscribers |->
                     IF s \in ending \/ (s = "splitter" /\ sp_pc = "done")
                                     \/ (s = "sender" /\ se_pc = "done")
                     THEN <<>> ELSE queues[s] \o st.notes]

\* The codec's events go nowhere once the timer task has ended.
Emit(evs) == events' = IF tm_pc = "done" THEN events ELSE events \o evs

\* `forward_message` parks the whole thread in `send(..).wait()`: on a
\* single executor thread no other task is polled until the send is done.
Blocked == {"blockedReq", "blockedResp"}

ExecutorFree == ~SingleThreaded \/ sp_pc \notin Blocked

\* The sending task has dropped every receiver it merged.
SenderGone == se_pc = "done"

SourceClosed(src) ==
    IF src = "internal" THEN sp_pc = "done" ELSE ~outOpen[src]

-----------------------------------------------------------------------------
(***************************************************************************)
(* Message splitting task.                                                 *)
(***************************************************************************)

\* The codec starts a message that it has not finished decoding.
DecodeBegin ==
    /\ sp_pc = "run" /\ ~decoding /\ received < MaxInbound
    /\ decoding' = TRUE
    /\ Emit(<<"DecodingStarted">>)
    /\ UNCHANGED <<stateVars, received, splitVars, chanVars, outVars, se_pc, tm_pc, armed>>

\* The codec completes a message and the stream yields it to the splitter.
Decoded ==
    /\ sp_pc = "run" /\ received < MaxInbound
    /\ received' = received + 1
    /\ decoding' = FALSE
    /\ Emit(IF decoding THEN <<"DecodingEnded">>
            ELSE <<"DecodingStarted", "DecodingEnded">>)

\* Mutant of ForwardRequest: the channel is taken to be unbounded.
ForwardRequestUnbounded ==
    \/ /\ ~sp_req
       /\ sp_pc' = "run"
       /\ UNCHANGED <<stateVars, sp_req, sp_resp, sp_out, chanVars>>
    \/ /\ sp_req /\ reqRx
       /\ reqChan' = reqChan + 1 /\ sp_pc' = "run"
       /\ UNCHANGED <<stateVars, sp_req, sp_resp, sp_out, reqRx, respChan, respRx>>
    \/ /\ sp_req /\ ~reqRx
       /\ sp_req' = FALSE /\ sp_pc' = "run"
       /\ Commit(UpdateReadState(Now, "Response"), changes, {})
       /\ UNCHANGED <<sp_resp, sp_out, chanVars>>

\* `forward_message` of a request: a failed send means the receiver is
\* gone, and only responses are read from then on.
ForwardRequest ==
    \/ /\ ~sp_req
       /\ sp_pc' = "run"
       /\ UNCHANGED <<stateVars, sp_req, sp_resp, sp_out, chanVars>>
    \/ /\ sp_req /\ reqRx /\ reqChan < RequestCapacity
       /\ reqChan' = reqChan + 1 /\ sp_pc' = "run"
       /\ UNCHANGED <<stateVars, sp_req, sp_resp, sp_out, reqRx, respChan, respRx>>
    \/ /\ sp_req /\ reqRx /\ reqChan = RequestCapacity
       /\ sp_pc' = "blockedReq"
       /\ UNCHANGED <<stateVars, sp_req, sp_resp, sp_out, chanVars>>
    \/ /\ sp_req /\ ~reqRx
       /\ sp_req' = FALSE /\ sp_pc' = "run"
       /\ Commit(UpdateReadState(Now, "Response"), changes, {})
       /\ UNCHANGED <<sp_resp, sp_out, chanVars>>

\* `forward_message` of a response: on failure only requests are read and
\* only responses written.
ForwardResponse ==
    \/ /\ ~sp_resp
       /\ sp_pc' = "run"
       /\ UNCHANGED <<stateVars, sp_req, sp_resp, sp_out, chanVars>>
    \/ /\ sp_resp /\ respRx /\ respChan < ResponseCapacity
       /\ respChan' = respChan + 1 /\ sp_pc' = "run"
       /\ UNCHANGED <<stateVars, sp_req, sp_resp, sp_out, reqChan, reqRx, respRx>>
    \/ /\ sp_resp /\ respRx /\ respChan = ResponseCapacity
       /\ sp_pc' = "blockedResp"
       /\ UNCHANGED <<stateVars, sp_req, sp_resp, sp_out, chanVars>>
    \/ /\ sp_resp /\ ~respRx
       /\ sp_resp' = FALSE /\ sp_pc' = "run"
       /\ Commit(UpdateState(Now, "Request", "Response"), changes, {})
       /\ UNCHANGED <<sp_req, sp_out, chanVars>>

SplitRequest ==
    /\ Decoded
    /\ ForwardRequest
    /\ UNCHANGED <<outVars, se_pc, tm_pc, armed>>

SplitResponse ==
    /\ Decoded
    /\ ForwardResponse
    /\ UNCHANGED <<outVars, se_pc, tm_pc, armed>>

\* `Err(InvalidRequest)`: a 400 Bad Request is queued if responses may be
\* written; `try_send_message` drops the sender once the receiver is gone.
SplitInvalidRequest ==
    /\ Decoded
    /\ \/ /\ ResponsesAllowed(write_state) /\ sp_out /\ ~SenderGone /\ nextId < MaxMsgs
          /\ out' = [out EXCEPT !["internal"] = Append(@, [id |-> nextId, kind |-> "resp"])]
          /\ nextId' = nextId + 1
          /\ UNCHANGED <<sp_out, outOpen, written, fwd>>
       \/ /\ ResponsesAllowed(write_state) /\ sp_out /\ SenderGone
          /\ sp_out' = FALSE
          /\ UNCHANGED outVars
       \/ /\ ~(ResponsesAllowed(write_state) /\ sp_out)
          /\ UNCHANGED <<sp_out, outVars>>
    /\ UNCHANGED <<stateVars, sp_pc, sp_req, sp_resp, chanVars, se_pc, tm_pc, armed>>

\* `Err(InvalidResponse)`: ignored.
SplitInvalidResponse ==
    /\ Decoded
    /\ UNCHANGED <<stateVars, splitVars, chanVars, outVars, se_pc, tm_pc, armed>>

\* Mutant of SplitUnblock: the send waits for one slot more than it needs.
SplitUnblockNeedsTwoSlots ==
    /\ \/ sp_pc = "blockedReq" /\ ~(reqRx /\ reqChan >= RequestCapacity - 1) /\ ForwardRequest
       \/ sp_pc = "blockedResp" /\ ~(respRx /\ respChan >= ResponseCapacity - 1) /\ ForwardResponse
    /\ UNCHANGED <<codecVars, outVars, se_pc, tm_pc, armed>>

\* The blocking `send(..).wait()` completes once the receiver made room,
\* or fails once the receiver is dropped.
SplitUnblock ==
    /\ \/ sp_pc = "blockedReq" /\ ~(reqRx /\ reqChan = RequestCapacity) /\ ForwardRequest
       \/ sp_pc = "blockedResp" /\ ~(respRx /\ respChan = ResponseCapacity) /\ ForwardResponse
    /\ UNCHANGED <<codecVars, outVars, se_pc, tm_pc, armed>>

\* The message stream ends: nothing more is read, only responses written.
SplitStreamEnd ==
    /\ sp_pc = "run" /\ ~decoding
    /\ sp_pc' = "done"
    /\ Commit(UpdateState(Now, "None", "Response"), changes, {"splitter"})
    /\ UNCHANGED <<codecVars, sp_req, sp_resp, sp_out, chanVars, outVars, se_pc, tm_pc, armed>>

\* The message stream fails irrecoverably.
SplitStreamError ==
    /\ sp_pc = "run"
    /\ sp_pc' = "done"
    /\ Commit(UpdateState(Now, Error(IOError), "Response"), changes, {"splitter"})
    /\ UNCHANGED <<codecVars, sp_req, sp_resp, sp_out, chanVars, outVars, se_pc, tm_pc, armed>>

\* Mutant of SplitStateChange: only a read state of None ends the task.
SplitStateChangeNoErrorArm ==
    /\ sp_pc = "run" /\ changes["splitter"] # <<>>
    /\ LET p == Head(changes["splitter"])
           rest == [changes EXCEPT !["splitter"] = Tail(@)]
       IN  \/ /\ p[1] = "None"
              /\ sp_pc' = "done"
              /\ Commit(UpdateWriteState(Now, "Response"), rest, {"splitter"})
              /\ UNCHANGED <<sp_req, sp_resp>>
           \/ /\ p[1] = "Request"
              /\ sp_resp' = FALSE
              /\ Commit(UpdateWriteState(Now, "Response"), rest, {})
              /\ UNCHANGED <<sp_pc, sp_req>>
           \/ /\ p[1] \notin {"None", "Request"}
              /\ changes' = rest
              /\ UNCHANGED <<read_state, write_state, sp_pc, sp_req, sp_resp>>
    /\ UNCHANGED <<codecVars, sp_out, chanVars, outVars, se_pc, tm_pc, armed>>

\* A published state change reaches the splitter.
SplitStateChange ==
    /\ sp_pc = "run" /\ changes["splitter"] # <<>>
    /\ LET p == Head(changes["splitter"])
           rest == [changes EXCEPT !["splitter"] = Tail(@)]
       IN  \/ /\ Closed(p[1])
              /\ sp_pc' = "done"
              /\ Commit(UpdateWriteState(Now, "Response"), rest, {"splitter"})
              /\ UNCHANGED <<sp_req, sp_resp>>
           \/ /\ p[1] = "Request"
              /\ sp_resp' = FALSE
              /\ Commit(UpdateWriteState(Now, "Response"), rest, {})
              /\ UNCHANGED <<sp_pc, sp_req>>
           \/ /\ p[1] \in {"All", "Response"}
              /\ p[1] = "Response" \/ ~RequestsAllowed(p[2])
              /\ sp_req' = FALSE
              /\ changes' = rest
              /\ UNCHANGED <<read_state, write_state, sp_pc, sp_resp>>
           \/ /\ p[1] = "All" /\ RequestsAllowed(p[2])
              /\ changes' = rest
              /\ UNCHANGED <<read_state, write_state, sp_pc, sp_req, sp_resp>>
    /\ UNCHANGED <<codecVars, sp_out, chanVars, outVars, se_pc, tm_pc, armed>>

-----------------------------------------------------------------------------
(***************************************************************************)
(* Message sending task.  `select2(rx_state_change, send_messages)` polls  *)
(* the state-change receiver first, so a pending state change is always   *)
(* taken before the next message.                                          *)
(***************************************************************************)

\* `sink.send_all(stream.filter(..))`: the merged stream yields the head of
\* one source, and the filter, under the lock, drops it if the write state
\* forbids its kind.  A message that passes is offered to the sink; when
\* the sink is not ready `SendAll` keeps it as its buffered item and offers
\* it again on a later poll, without filtering it again.  So the message
\* is held in `fwd` until the sink takes it.  The state lock is released
\* between the filter and the offer, so the offer is a step of its own.
SendPoll(src) ==
    /\ ExecutorFree
    /\ se_pc = "run" /\ changes["sender"] = <<>> /\ fwd = <<>> /\ out[src] # <<>>
    /\ LET m == Head(out[src]) IN
       /\ out' = [out EXCEPT ![src] = Tail(@)]
       /\ fwd' = IF Allowed(write_state, m.kind) THEN <<m>> ELSE <<>>
    /\ UNCHANGED <<stateVars, codecVars, splitVars, chanVars, outOpen, nextId,
                   written, se_pc, tm_pc, armed>>

\* The sink takes the held message, or fails and the task ends with the
\* write half in error.
SinkSend ==
    /\ ExecutorFree
    /\ se_pc = "run" /\ changes["sender"] = <<>> /\ fwd # <<>>
    /\ fwd' = <<>>
    /\ \/ /\ written' = written \cup {Head(fwd)}
          /\ UNCHANGED <<stateVars, se_pc>>
       \/ /\ se_pc' = "done"
          /\ Commit(UpdateState(Now, "Response", Error(IOError)), changes, {"sender"})
          /\ UNCHANGED written
    /\ UNCHANGED <<codecVars, splitVars, chanVars, out, outOpen, nextId, tm_pc, armed>>

\* Mutant of SendStateChange: the sender also stops once requests may no
\* longer be written.
SendStateChangeEager ==
    /\ ExecutorFree
    /\ se_pc = "run" /\ changes["sender"] # <<>>
    /\ LET p == Head(changes["sender"])
           rest == [changes EXCEPT !["sender"] = Tail(@)]
       IN  \/ /\ ~RequestsAllowed(p[2])
              /\ se_pc' = "done"
              /\ Commit(UpdateReadState(Now, "Response"), rest, {"sender"})
           \/ /\ RequestsAllowed(p[2])
              /\ changes' = rest
              /\ UNCHANGED <<read_state, write_state, se_pc>>
    /\ UNCHANGED <<codecVars, splitVars, chanVars, outVars, tm_pc, armed>>

\* A published state change reaches the sender: it stops once nothing can
\* be written any more.
SendStateChange ==
    /\ ExecutorFree
    /\ se_pc = "run" /\ changes["sender"] # <<>>
    /\ LET p == Head(changes["sender"])
           rest == [changes EXCEPT !["sender"] = Tail(@)]
       IN  \/ /\ Closed(p[2])
              /\ se_pc' = "done"
              /\ Commit(UpdateReadState(Now, "Response"), rest, {"sender"})
           \/ /\ ~Closed(p[2])
              /\ changes' = rest
              /\ UNCHANGED <<read_state, write_state, se_pc>>
    /\ UNCHANGED <<codecVars, splitVars, chanVars, outVars, tm_pc, armed>>

\* Every merged receiver has ended: `send_all` completes, or its final flush
\* or close of the sink fails and the write half takes the error.
SendAllClosed ==
    /\ ExecutorFree
    /\ se_pc = "run" /\ changes["sender"] = <<>>
    /\ \A src \in Sources : SourceClosed(src) /\ out[src] = <<>>
    /\ fwd = <<>>
    /\ se_pc' = "done"
    /\ \/ Commit(UpdateState(Now, "Response", "None"), changes, {"sender"})
       \/ Commit(UpdateState(Now, "Response", Error(IOError)), changes, {"sender"})
    /\ UNCHANGED <<codecVars, splitVars, chanVars, outVars, tm_pc, armed>>

-----------------------------------------------------------------------------
(***************************************************************************)
(* Decoding timer task.  `select2(timer, events)` polls the timer first.  *)
(***************************************************************************)

\* A codec event: DecodingStarted arms a fresh deadline, DecodingEnded
\* disarms it.
TimerEvent ==
    /\ ExecutorFree
    /\ tm_pc = "run" /\ events # <<>>
    /\ armed' = (Head(events) = "DecodingStarted")
    /\ events' = Tail(events)
    /\ UNCHANGED <<stateVars, decoding, received, splitVars, chanVars, outVars, se_pc, tm_pc>>

\* The deadline passes: reads are dead, responses may still be written.
\* Delay::new(now + 10s) (line 366) is polled at once by loop_fn, and a
\* queued event wakes the task long before the 10 s are up, so the deadline
\* passes only while the timer waits with no event queued.
TimerExpire ==
    /\ ExecutorFree
    /\ tm_pc = "run" /\ armed /\ events = <<>>
    /\ tm_pc' = "done" /\ armed' = FALSE /\ events' = <<>>
    /\ Commit(UpdateState(Now, Error(DecodingTimedOut), "Response"), changes, {})
    /\ UNCHANGED <<decoding, received, splitVars, chanVars, outVars, se_pc>>

\* Both halves of the framed codec are dropped, so the event stream ends.
TimerCodecDropped ==
    /\ ExecutorFree
    /\ tm_pc = "run" /\ events = <<>> /\ sp_pc = "done" /\ se_pc = "done"
    /\ tm_pc' = "done" /\ armed' = FALSE
    /\ Commit(UpdateState(Now, "None", "None"), changes, {})
    /\ UNCHANGED <<codecVars, splitVars, chanVars, outVars, se_pc>>

-----------------------------------------------------------------------------
(***************************************************************************)
(* Environment.                                                            *)
(***************************************************************************)

\* `Handle::send_request` queues a request; the send fails (and changes
\* nothing) once the sending task is gone.
HandleSend ==
    /\ outOpen["handle"] /\ ~SenderGone /\ nextId < MaxMsgs
    /\ out' = [out EXCEPT !["handle"] = Append(@, [id |-> nextId, kind |-> "req"])]
    /\ nextId' = nextId + 1
    /\ UNCHANGED <<stateVars, codecVars, splitVars, chanVars, outOpen, written, fwd, se_pc, tm_pc, armed>>

\* The request receiver takes a request; the service driver answers it.
ServeRequest ==
    /\ ExecutorFree
    /\ reqRx /\ reqChan > 0
    /\ reqChan' = reqChan - 1
    /\ IF outOpen["service"] /\ ~SenderGone /\ nextId < MaxMsgs
       THEN /\ out' = [out EXCEPT !["service"] = Append(@, [id |-> nextId, kind |-> "resp"])]
            /\ nextId' = nextId + 1
       ELSE UNCHANGED <<out, nextId>>
    /\ UNCHANGED <<stateVars, codecVars, splitVars, reqRx, respChan, respRx, outOpen, written, fwd, se_pc, tm_pc, armed>>

\* The response receiver (the correlator) takes a response.
TakeResponse ==
    /\ ExecutorFree
    /\ respRx /\ respChan > 0
    /\ respChan' = respChan - 1
    /\ UNCHANGED <<stateVars, codecVars, splitVars, reqChan, reqRx, respRx, outVars, se_pc, tm_pc, armed>>

\* A receiver task ends and drops its receiver with whatever it held.
DropRequestReceiver ==
    /\ ExecutorFree
    /\ reqRx
    /\ reqRx' = FALSE /\ reqChan' = 0
    /\ UNCHANGED <<stateVars, codecVars, splitVars, respChan, respRx, outVars, se_pc, tm_pc, armed>>

DropResponseReceiver ==
    /\ ExecutorFree
    /\ respRx
    /\ respRx' = FALSE /\ respChan' = 0
    /\ UNCHANGED <<stateVars, codecVars, splitVars, reqChan, reqRx, outVars, se_pc, tm_pc, armed>>

\* The application drops the handle, or the service driver ends.
CloseSource(src) ==
    /\ outOpen[src]
    /\ outOpen' = [outOpen EXCEPT ![src] = FALSE]
    /\ UNCHANGED <<stateVars, codecVars, splitVars, chanVars, out, nextId, written, fwd, se_pc, tm_pc, armed>>

-----------------------------------------------------------------------------

Init ==
    /\ read_state = InitState.read /\ write_state = InitState.write
    /\ changes = [s \in Subscribers |-> <<>>]
    /\ decoding = FALSE /\ events = <<>> /\ received = 0
    /\ sp_pc = "run" /\ sp_req = TRUE /\ sp_resp = TRUE /\ sp_out = TRUE
    /\ reqChan = 0 /\ reqRx = TRUE /\ respChan = 0 /\ respRx = TRUE
    /\ out = [s \in Sources |-> <<>>]
    /\ outOpen = [s \in {"handle", "service"} |-> TRUE]
    /\ nextId = 0 /\ written = {} /\ fwd = <<>>
    /\ se_pc = "run" /\ tm_pc = "run" /\ armed = FALSE

Splitter ==
    \/ DecodeBegin \/ SplitRequest \/ SplitResponse \/ SplitInvalidRequest
    \/ SplitInvalidResponse \/ SplitUnblock \/ SplitStreamEnd \/ SplitStreamError
    \/ SplitStateChange

Sender ==
    \/ \E src \in Sources : SendPoll(src)
    \/ SinkSend \/ SendStateChange \/ SendAllClosed

Timer == TimerEvent \/ TimerExpire \/ TimerCodecDropped

Environment ==
    \/ HandleSend \/ ServeRequest \/ TakeResponse
    \/ DropRequestReceiver \/ DropResponseReceiver
    \/ \E src \in {"handle", "service"} : CloseSource(src)

Next == Splitter \/ Sender \/ Timer \/ Environment

(***************************************************************************)
(* Fairness: the executor polls every task whose wake-up has happened, so *)
(* each task is weakly fair as a whole: the sender and the timer take    *)
(* whichever of their arms is ready (for the timer, an armed deadline     *)
(* passing is one of them).  The splitter's fair arms are the ones that   *)
(* need no new item from the peer (never both enabled: one needs the    *)
(* splitter parked, the other running).  The receiver loops that drain the *)
(* incoming channels are fair too.  The peer and the application get no  *)
(* fairness: they may stall forever.                                       *)
(***************************************************************************)
Fairness ==
    /\ WF_vars(SplitUnblock \/ SplitStateChange)
    /\ WF_vars(Sender) /\ WF_vars(Timer)
    /\ WF_vars(ServeRequest) /\ WF_vars(TakeResponse)

Spec == Init /\ [][Next]_vars /\ Fairness

-----------------------------------------------------------------------------
(***************************************************************************)
(* Properties.                                                             *)
(***************************************************************************)

Permits(s) == {k \in Kinds : Allowed(s, k)}

\* Reference for `try_update_state`: an error is sticky and overrides every
\* plain state; between plain states the result permits exactly what both
\* the current and the proposed state permit.
Meet(cur, new) ==
    IF IsError(cur) THEN cur
    ELSE IF IsError(new) THEN new
    ELSE CHOOSE s \in Plain : Permits(s) = Permits(cur) \cap Permits(new)

\* `try_update_state` narrows monotonically (spec I1): from the value either
\* half has in any reachable state, every proposed half-state yields the
\* meet of the two in the lattice All > {Request, Response} > None, with
\* the first Error kept for good.
TryUpdateIsMeet ==
    \A cur \in {read_state, write_state}, new \in HalfStates :
        TryUpdateState(cur, new) = Meet(cur, new)

\* Write gate (spec I2, and the filter's comment at line 753): a message
\* crosses the sink only if the write state at that moment allows its kind,
\* although the Handle and the service queue messages without looking at
\* the state, the filter looks at it before the sink is ready, and a state
\* change may come in between.
WriteGate ==
    [][\A m \in written' \ written : Allowed(write_state, m.kind)]_written

\* Read gate (spec 3, "what kinds of inbound messages are still accepted"):
\* the splitter hands a request to the orderer only while the read state
\* accepts requests.
ReadGate ==
    [][reqChan' > reqChan => RequestsAllowed(read_state)]_reqChan

\* No response is lost (spec 1): a response queued for sending is
\* eventually written to the sink, unless the write state stops allowing
\* responses.  The sender may only end once its sources are drained or
\* writing is over.
Queued(id) ==
    \E src \in Sources : \E i \in 1 .. Len(out[src]) :
        out[src][i].id = id /\ out[src][i].kind = "resp"

NoResponseLost ==
    \A id \in 0 .. MaxMsgs - 1 :
        Queued(id) ~> ((\E m \in written : m.id = id) \/ ~ResponsesAllowed(write_state))

\* A blocked send returns (spec 5, "tasks are non-blocking"): once the
\* splitter waits in `send(..).wait()` on a full channel, the receiving
\* task gets to make room or to go away, so the splitter runs again.
SplitterNeverStuck == sp_pc \in Blocked ~> sp_pc \notin Blocked

\* Refinement: the connection implements the abstract protocol state
\* (ConnectionState): whatever the splitter, the sender and the timer do,
\* in whatever order their locked calls and their reactions to published
\* changes interleave, each half only narrows, an Error is never replaced,
\* and the sink takes no message once the write half is None or Error.
AbstractState == INSTANCE ConnectionState
    WITH Errors <- {DecodingTimedOut, IOError}, Msgs <- Msgs,
         read <- read_state, write <- write_state, sent <- written

ImplementsConnectionState == AbstractState!Spec

\* Shutdown completes: once nothing more can be read and the application
\* has dropped the handle and the service, every task ends without any help
\* from the peer, and both halves end up closed, with the last tasks
\* learning of the end only through published state changes.
AllDone == sp_pc = "done" /\ se_pc = "done" /\ tm_pc = "done"

ShutdownCompletes ==
    (Closed(read_state) /\ ~outOpen["handle"] /\ ~outOpen["service"])
        ~> (AllDone /\ Closed(read_state) /\ Closed(write_state))

=============================================================================
