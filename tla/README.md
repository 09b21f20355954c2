# TLA+ models of the rtsp-rs connection core

These modules model the connection engine in `src/src/protocol/protocol.rs`.
The engine is a set of futures-0.1 tasks. They share one mutex-guarded
`ProtocolState` and talk to each other over channels. The modules are checked
with TLC.

## 1. The system

### Parts and how they interact

| Part | Code | State | Operations |
|---|---|---|---|
| Protocol state | `state_type!`, `ProtocolState` (70-231) | `read_state`, `write_state`: each one of All, Request, Response, None, Error(e); one unbounded state-change sender | `try_update_state` (monotone narrowing); `update_read_state`, `update_write_state`, `update_state`: publish `(read, write)` after every change |
| Decoding timer | `create_decoding_timer_task` (330-389) | the deadline, armed or not | codec event (arm or disarm); expiry → `(Error(DecodingTimedOut), Response)`; codec dropped → `(None, None)` |
| Message splitter | `create_split_messages_task`, `forward_message` (857-1040) | optional senders for requests, responses and outgoing 400s | `select2(stream, state changes)`, polling the stream first: forward a request or response (blocking `send().wait()` on a bounded channel); 400 for an invalid request; ignore an invalid response; stream end; stream error; four state-change arms |
| Message sender | `create_send_messages_task` (741-821) | `select_all` merge of the outgoing receivers; the sink | `select2(state changes, send_all)`, polling state changes first: the write-state filter runs when `select_all` yields a message; `send_all` holds that message until the sink is ready and then writes it (which may fail); stop on `write ∈ {None, Error}`; end of every source → `(Response, None)` |
| Request orderer | `create_request_handler_task` (391-528) | expected CSeq, `HashMap` buffer, optional outgoing sender | one fold step per request: invalid CSeq → 400; too far → 503; otherwise buffer, then drain in CSeq order; exits when a send fails |
| Response correlator | `create_response_handler_task`, `handle_response` (530-720) | `LinkedHashMap` CSeq → one-shot sender; update receiver, or none once it ends | `select2(responses, updates)`, polling responses first: final response; 100 Continue (new one-shot); end of responses (None to all); Add or Remove; end of updates |
| `select_all` | 249-295 | (none: a tree of `select`s) | builds a balanced merge of N streams |
| `try_send_message` | 297-307 | | drops the sender after a failed send |
| Handle, handler driver, codec | not in the source tree (spec 4.1, 4.4, 4.7) | | `send_request` with its one-shot loop and deadline; the service answering ordered requests; decoding events |
| `rtsp-2` server and client | `server.rs`, `client.rs` | server sessions | build OPTIONS and SETUP responses; forward `send_request` |

How the parts interact: every task locks the state for short critical
sections. Each change is published on the state-change channel.

- The splitter and the sender learn of every change through that channel and
  end on it.
- The timer ends only when it expires or the codec's event stream ends. The
  event stream ends when the splitter and the sender have dropped both halves
  of the codec.
- The splitter feeds the orderer (requests) and the correlator (responses)
  over bounded channels.
- The orderer feeds the service over an unbounded channel, and sends its
  400s and 503s to the sender.
- The service, the Handle and the splitter all send to the sender.

`Protocol::with_config` spawns only the timer. The other tasks exist as
functions and are wired by the unit tests; the models wire them as spec 2
describes. Each subscribing task has its own state-change queue, as in the
tests.

### What is hard to test here

All of these are listed as hazards in `PROJECT.json`:

- **State read before it takes effect.** A task may act on a state that
  another task has already narrowed, but whose change notification it has not
  yet taken. The `select2` polling order decides which input wins.
- **Two notifications for one update.** `update_state` publishes two pairs,
  and the intermediate pair is visible.
- **Blocking send.** The splitter's blocking send on a full bounded channel.
- **Wrapping CSeq arithmetic.** The window test, and the increment when
  draining the buffer.
- **Misbehaving peer.** Duplicate CSeqs, and CSeqs far ahead or behind.
- **Lost response.** A response that is ready before its
  `AddPendingRequest` has been taken is lost.
- **Continue after a dropped receiver.** 100 Continue arriving after the
  caller's deadline dropped its receiver.
- **A CSeq that comes round.** The Handle's CSeq counter wraps, and the
  correlator knows a request only by its CSeq.
- **Queued registrations at shutdown.** The response stream ends while Adds
  are still queued.
- **Progressive shutdown.** Every task ends only through published state
  changes.
- **A filter verdict used late.** The sender's filter reads the write state
  when a message is taken from the sources. `send_all` may keep that message
  across polls, and writes it later without looking again.
- **A deadline and a late decode.** The timer arms `Delay::new(now + 10s)`
  (line 366) and `loop_fn` polls it again at once. A queued event wakes the
  task long before the 10 s are up, so the deadline passes only while the
  timer waits with no event queued (`TimerExpire` is guarded so). The
  published `(Error(DecodingTimedOut), Response)` pair then races the
  splitter, which may still forward what it decodes.

## 2. Modules

In order of importance:

| Module | Models | Composes |
|---|---|---|
| `ProtocolState` | half-states, `try_update_state`, the update functions with the pairs they publish. No variables: the operators map one state record to the next, so one action can apply a whole critical section. | |
| `Connection` | splitter, sender, decoding timer, the shared state and per-task state-change queues, the bounded request and response channels, the outgoing sources. The codec, Handle, service driver and the receivers of the bounded channels are the environment. | `ProtocolState` |
| `Orderer` | the request orderer with CSeq of `CSeqBits` bits | |
| `Correlator` | the response correlator with the callers of `send_request` (spec 4.7) and the peer | |
| `ConnectionState` | abstract: what the protocol state promises (spec I1, I5). Each half only narrows, an Error is final, and nothing is written once the write half is None or Error. Several changes may happen in one step. | `ProtocolState` |
| `CallOutcome` | abstract: what `send_request` promises its caller (spec 4.7, I4, P4). One result per call, and each result has its cause: Ok needs an answer from the peer; None or cancel needs the response stream ended; a timeout may come at any time. | |
| `OrderedDelivery` | abstract: what the orderer promises the service (spec 4.3, I3). Requests arrive with or without a CSeq. The first valid CSeq fixes where delivery starts. Each arrival may release a batch of requests that have arrived, are not yet delivered, and carry consecutive CSeqs. The orderer may stop, and a request that finds the service gone is lost. | |
| `SelectAll` | the construction loop of `select_all`, one loop iteration per step, with the tree as nested records; `Depth`, `LeafSeq`, `Perfect` and the reference `CeilLog2` are RECURSIVE operators | |
| `MCConnection`, `MCOrderer`, `MCCorrelator`, `MCSelectAll` | constants for TLC | |

How the code maps onto the models:

- **Variables hold what the code keeps.**
  - The splitter's `Option<Sender>`s are `sp_req`, `sp_resp` and `sp_out`.
  - The orderer's `incoming_sequence_number` is `expected`; the `HashMap`
    is `pending`.
  - The correlator's map is `pending`, a function from CSeq to the call
    whose sender the entry holds. Its `Option` of the update receiver is
    `cpc`. The callers are model values, and `reqCSeq` is the CSeq the
    Handle's counter `nextCSeq` stamped on each call's request.
  - `fwd` in `Connection` is the message `send_all` holds between the filter
    (`SendPoll`) and the sink (`SinkSend`).
- **Each arm is one action.** Each arm of a task's `select2` or `match` is
  an action (or a disjunct of one). The guard includes the polling priority:
  for example, the sender writes only while its state-change queue is empty.
- **Each locked call is applied whole.** `Commit` applies the state, and
  appends the pairs published by the locked calls to the queues of the tasks
  still running.
- **Data is abstracted.**
  - A message is an id and a kind.
  - A CSeq is a number below 2^`CSeqBits`.
  - A one-shot chain is the sequence of values delivered on it; "cancel" is
    a sender dropped unsent.

The `PROJECT.json` "map" names the source lines of every definition. It marks
the definitions taken from the spec (codec, Handle, driver) as
`spec_modelled`.

### Plan

Done so far, in order of importance:

1. `ProtocolState` and `Connection` (shared state, splitter, sender with the
   item `send_all` holds, timer, thread pool and single thread).
2. `Orderer`.
3. `Correlator` with the callers.
4. `SelectAll`.
5. The abstract modules `ConnectionState`, `OrderedDelivery` and
   `CallOutcome`. `Connection`, `Orderer` and `Correlator` are checked to
   implement them, as PROPERTYs through INSTANCE ... WITH.

Next:

- **A composition of `Connection` with the `Orderer` and `Correlator`.** It
  would put the splitter's bounded channels in front of the real receivers.
  Then the write state the orderer reads, and the end of the response stream
  the correlator sees, would come from the splitter and the sender
  themselves. Two things hold it back:
  - `Connection`'s outgoing sources are fixed, and give the orderer no
    source of its own.
  - `MCConnection` alone takes about 1.3 minutes, with fairness stated per
    task; the orderer and correlator would multiply its state space.
  A composition needs a coarser `Connection` first, for example with the
  timer left out.

## 3. Runs

| Run | Checks | Result |
|---|---|---|
| `connection_core` (`MCConnection.cfg`) | `TypeOK`, `TryUpdateIsMeet`, `NoResponseLost`, `ShutdownCompletes`, `SplitterNeverStuck`, `ImplementsConnectionState` | pass, ~246k states, ~1.3 min |
| `connection_write_gate` (`MCConnectionWriteGate.cfg`) | `WriteGate` | violated |
| `connection_read_gate` (`MCConnectionReadGate.cfg`) | `ReadGate` | violated |
| `connection_single_thread` (`MCConnectionSingleThread.cfg`) | `SplitterNeverStuck` with `SingleThreaded = TRUE` | violated |
| `select_all` (`MCSelectAll.cfg`) | `TypeOK`, `StackIsBinaryCounter`, `MergeIsComplete` | pass, 260 states |
| `select_all_balanced` (`MCSelectAllBalanced.cfg`) | `MergeIsBalanced` | violated |
| `orderer` (`MCOrderer.cfg`) | `TypeOK`, `ForwardedInOrder`, `PendingWindow`, `ImplementsOrderedDelivery` | pass, ~2.7M states |
| `orderer_duplicate_cseq` (`MCOrdererNoSilentDrop.cfg`) | `NoSilentDrop` | violated |
| `correlator` (`MCCorrelator.cfg`) | `TypeOK`, `ExactlyOneOutcome`, `NoCallerStranded`, `TaskEnds`, `CallsResolve`, `ImplementsCallOutcome` | pass, ~272k states |
| `correlator_cseq_wrap` (`MCCorrelatorWrap.cfg`) | `AnswerGoesToAsker` with three calls on a 1-bit counter | violated |
| `correlator_remove_wrap` (`MCCorrelatorRemoveWrap.cfg`) | `RemoveHitsSender` with three calls on a 1-bit counter | violated |
| `correlator_response_race` (`MCCorrelatorResponse.cfg`) | `ResponseReachesCaller` | violated |

What the properties say:

- **`TryUpdateIsMeet`** (spec I1). From every value a half reaches,
  `try_update_state` yields the meet in the lattice All > {Request, Response}
  > None, and the first Error is sticky. The reference is `Meet`, defined
  separately from the code's case split.
- **`ImplementsConnectionState`** (spec I1, I5). `Connection` implements
  `ConnectionState`, with the mapping `read_state`, `write_state` and
  `written`. Whatever order the locked calls and the reactions to published
  pairs take, each half only narrows and an Error is never replaced. Once
  the write half is None or Error, the sink takes nothing.
- **`NoResponseLost`** (spec 1). A queued response is eventually written,
  unless responses are no longer allowed.
- **`ShutdownCompletes`.** Once reads are over and the application has let
  go, every task ends and both halves are closed. This needs no further
  input from the peer.
- **`ForwardedInOrder`** (spec I3). The service gets each request at most
  once, in consecutive CSeq order from the first valid CSeq, across the wrap.
- **`PendingWindow`.** The buffer only ever holds requests 1 to
  `RequestsBufferSize` ahead of the expected CSeq.
- **`ImplementsOrderedDelivery`** (spec 4.3, I3). `Orderer` implements
  `OrderedDelivery`. The mapping is `arrivals`, `forwarded`, `expected` as
  the next CSeq, and `pc = "run"`. The expected CSeq is fixed once, by the
  first valid CSeq, and then moves only by the requests forwarded. That
  holds across 400s, 503s, duplicates, the wrap and a failed send (line
  474 rewrites it after both branches). The service's sequence is only ever
  extended.
- **`ExactlyOneOutcome`** (spec I4). On each request's one-shot chain, a
  terminal value comes only last. This holds even when the peer repeats a
  final response, and when Continue, deadlines and stream ends interleave.
- **`NoCallerStranded`.** Once the correlator has ended, no caller waits
  without a terminal value on its way.
- **`CallsResolve`** (spec 4.7). A caller that waits after the response
  stream has ended gets a result. This holds without any deadline.
- **`ImplementsCallOutcome`** (spec 4.7, I4). `Correlator` implements
  `CallOutcome`. The mapping takes the callers' states as they are, and a
  call counts as answered once the peer has sent a final response for it.
  So Ok is only ever the peer's answer, and None or cancel only come after
  the stream ends, never while a response can still arrive.
- **`TaskEnds`** (spec 4.5). The correlator ends once the response stream
  does.
- **`SplitterNeverStuck`** (spec 5). A splitter parked in the blocking send
  runs again: with the tasks on a thread pool, the receiver makes room or
  goes away.
- **`StackIsBinaryCounter`.** The loop invariant of `select_all`. Stack
  heights strictly decrease, each level is a perfect tree of 2^height
  receivers, and the levels hold the receivers taken so far, in order.
- **`MergeIsComplete`** (spec 4.6). The merge holds every receiver exactly
  once and has height ceil(log2 N), for every N up to 12. The reference is
  a separately defined `CeilLog2`.

Each property of a passing run has a mutant in `PROJECT.json`: a plausible
bug in the definition it depends on, which TLC shows violates the property.

### Findings (the violation runs)

- **`AnswerGoesToAsker`, CSeq reuse** (line 668, spec 4.7). Spec 4.7 makes
  the Handle's CSeq counter wrap, and the correlator keys its map by CSeq
  alone. With three calls on a 1-bit counter, c3 gets c1's CSeq 0 while c1
  is still pending. The peer answers c3, and the task hands the answer to
  c1 (7 states).
  - Once c3's Add is taken, `insert` replaces c1's sender, so c1 is
    cancelled while the stream is open. That breaks `CallOutcome` as well.
  - `AnswerGoesToAsker` says that a final response the task delivers goes
    to the call the peer answered. The task matches on the CSeq alone; the
    response's `of` field records which call the peer answered, and the
    task never reads it.
  - With a 32-bit CSeq this needs one request to stay pending while 2^32
    others are sent. The spec says nothing of reuse.

- **`RemoveHitsSender`, CSeq reuse in a Remove** (line 675, spec 4.5). When
  the task takes a `RemovePendingRequest`, the entry it drops should belong
  to the call whose deadline sent it. The message carries only the CSeq;
  its `of` field is a history field the task never reads. Under the same
  bounds as `correlator_cseq_wrap`, c3 gets c1's CSeq 0, the task takes
  c3's Add, and then c1 times out. c1's Remove drops c3's entry, and c3 is
  cancelled while the peer may still answer it (9 states).

- **`WriteGate`** (spec I2, and the filter's own comment at line 753). This
  is a code bug. The filter checks the write state when `select_all` yields a
  message. If the sink is not ready, `send_all` keeps the message and writes
  it on a later poll without filtering it again. In between, the sender may
  take a state change to write = Response; that is not a closing state, so
  the sender goes on.
  - The trace: the Handle queues a request, and the sender takes and passes
    it while write = All. The splitter's stream ends, giving
    `(None, Response)`. The sender takes both published pairs. The sink
    then writes the request (7 states).
  - What ought to hold is only the weaker I5 promise that
    `ImplementsConnectionState` checks.
- **`ReadGate`** (spec 3). The splitter polls the message stream before the
  state-change receiver. The trace: the codec starts decoding and the timer
  arms its deadline. The peer's message takes longer than the deadline, so
  the timer sets the read half to `Error(DecodingTimedOut)` and the write
  half to Response. The splitter then still forwards a request it decodes
  to the orderer before it takes the state change (5 states).
- **`NoSilentDrop`.** A second request with the CSeq of a buffered request
  replaces it in the `HashMap`. The first is never forwarded or answered.
  The spec does not say what a duplicate CSeq should do.
- **`ResponseReachesCaller`.** A caller registers and sends. The peer's final
  response is in the channel before the task takes the Add, and `select2`
  takes the response first and drops it (4 states). The caller then waits
  for its deadline or for the end of the stream. Spec S5 expects the
  response.
- **`SplitterNeverStuck`, one executor thread.** Two responses fill the
  response channel (capacity 1), and the splitter parks the thread in
  `send(..).wait()` (line 875). The correlator runs on the same thread, so
  it is never polled to make room. Spec 5 says tasks are non-blocking.
- **`MergeIsBalanced`.** With 5 receivers, `select_all` puts the fifth one
  `select` deep and the other four three deep. The final fold (line 284)
  hangs whatever is left after the last power of two near the root, so
  under contention the fifth gets half of the polls. Spec 4.6 calls the
  merge balanced; its height claim does hold.

## 4. Bounds

- **`MCConnection`.**
  - Both bounded channels have capacity 1 (buffer size 0 plus one slot for
    the sender), so both the blocking send and the unblock happen.
  - Two inbound messages and two outgoing messages, which is enough for a
    message to be queued on each side of any one state change.
  - Larger values stay under TLC's time limit but add no new arm.
- **`MCOrderer`.**
  - A 3-bit CSeq (values 0..7) with a buffer of 2 and 5 requests. The window
    then reaches across the wrap, a duplicate and a far-ahead CSeq both
    occur, and a CSeq behind the expected one wraps to "far ahead". A fifth
    request lets a drain of the whole window follow a 400 or a 503 (about
    2.7M states, 40 s).
- **`MCCorrelator`.**
  - Two calls on a 1-bit CSeq counter, a channel of 2 responses, one
    Continue per call, and up to two final responses (a repeat). The
    counter wraps, but no CSeq is reused while pending.
  - `MCCorrelatorWrap.cfg` takes a third call, which reuses a CSeq.
- **`MCSelectAll`.**
  - Every N from 0 to 12. That goes past two powers of two, so the final
    fold combines three levels of different heights (N = 7, 11).

## 5. Fairness

The executor polls every task whose wake-up has happened. So each task's
reaction to an input it already has is weakly fair. In `Connection` the
fairness is stated per task: `WF_vars(Sender)` and `WF_vars(Timer)` cover
every arm of those tasks, because a poll runs whichever arm is ready. This is
weaker than fairness per arm, and it cuts the liveness check of
`connection_core` to about a third. For the splitter, only the arms that need no new
item from the peer are fair: `WF_vars(SplitUnblock \/ SplitStateChange)`.
The two are never enabled together, since one needs the splitter parked and
the other needs it running. The same holds for the
receiver loops that drain the bounded channels, for an armed deadline
passing, and for a caller polling its own future. The peer, the application,
the service and the deadlines of callers get no fairness: they may stall
forever. The liveness properties are stated so that they do not rely on them.

## 6. Not modelled

- **Codec, Handle, handler driver.** Not in the source tree; only what the
  tasks see of them is modelled, from the spec.
- **Polling of `Stream::select`.** It is a futures library type, not in the
  source. `SelectAll` checks the shape of the tree the code builds. The
  Connection model's sender takes messages from any non-empty source in any
  order, which includes every order the tree produces.
- **The executor, beyond two cases.** The models cover a thread pool, where
  every task is its own thread of control, and one thread
  (`SingleThreaded`), where no task but the splitter runs while it is
  parked in `send(..).wait()`.
- **`rtsp-2` server and client.** The server's service is a pure function
  of method and URI, and nothing is shared between connections. The one
  piece of state, the `Vec` of connection handles, only grows (listed as a
  hazard). The client forwards to `send_request`.
- **`send_all` within one poll.** Between the filter and `start_send` in the
  same poll, the write state can only become None or Error through the
  sender itself, or after the sender has ended. So that window adds no
  behaviour beyond the one `fwd` models across polls.
- **The orderer forwarding after the outgoing receiver is gone** (line
  506). `tx_outgoing_message` becomes None only when a send fails. So the
  orderer keeps forwarding in-window requests until it next has a 400 or
  503 to send. The `orderer` run reaches this: `DropOutgoingReceiver`
  followed by `ReceiveInWindow` forwards a request. Any property against it
  would fail at once, because the code can learn of the drop only by
  sending. In the code the stream ends once the sender has narrowed the read
  state. The Orderer model leaves that stream to the environment. The case
  is listed as a hazard with no property.
- **Headers of the 400 and 503 replies.** The orderer's replies carry no
  CSeq header (lines 443-452 and 484-494). Spec 4.3 says the 503 echoes the
  request's CSeq. This can be read off the code directly. A property about
  it would only restate how `Respond` builds a reply, so no run checks it.
- **URI and header parsing.**
- **Insertion order of the correlator's map.** Only the order in which
  callers get None depends on it, and no caller can observe that order.
