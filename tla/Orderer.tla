------------------------------ MODULE Orderer ------------------------------
(***************************************************************************)
(* The request ordering task of protocol.rs (`create_request_handler_task`)*)
(* folds over the incoming-request channel.  It takes the first CSeq seen *)
(* as the expected one, buffers requests up to RequestsBufferSize ahead   *)
(* of it in a HashMap keyed by CSeq, forwards them in CSeq order on the   *)
(* unbounded ordered-request channel, and answers a request without a     *)
(* valid CSeq with 400 and one too far ahead with 503 on the outgoing     *)
(* channel, if the write state allows responses.                          *)
(*                                                                         *)
(* CSeq is a `u32` with wrapping subtraction and increment; here it has   *)
(* CSeqBits bits, so that wrap-around happens within a few requests.      *)
(* Each request carries its arrival number as identity.                   *)
(***************************************************************************)
EXTENDS Integers, Sequences, FiniteSets

CONSTANTS
    CSeqBits,             \* width of CSeq (32 in the code)
    RequestsBufferSize,   \* DEFAULT_REQUESTS_BUFFER_SIZE
    MaxRequests,          \* bound: requests the splitter hands over
    NoCSeq                \* no or an unparsable CSeq header; also "no
                          \* expected CSeq yet"

ASSUME CSeqBits \in Nat \ {0} /\ RequestsBufferSize \in Nat /\ MaxRequests \in Nat

Modulus == 2 ^ CSeqBits
CSeqs == 0 .. Modulus - 1

\* `cseq - request_sequence_number` and `increment()` wrap around.
\* Mutant of Increment: the increment does not wrap.
IncrementNoWrap(c) == c + 1

\* Mutant of Distance: plain subtraction, negative for a CSeq behind.
DistanceNoWrap(c, exp) == c - exp

Distance(c, exp) == (c - exp) % Modulus
Increment(c) == (c + 1) % Modulus

Request == [id : Nat, cseq : CSeqs]
Reply == [status : {400, 503}, cseq : CSeqs \cup {NoCSeq}]

VARIABLES
    pc,               \* "run" or "done"
    expected,         \* incoming_sequence_number
    pending,          \* pending_requests: a set of requests, one per CSeq
    forwarded,        \* requests sent on the ordered-request channel
    outgoing,         \* replies sent on the outgoing-message channel
    txOut,            \* tx_outgoing_message is still Some
    arrivals,         \* history: every request received, in order
    rejected,         \* history: requests that took the too-far branch
    responsesAllowed, \* write_state().responses_allowed()
    outRx,            \* the sending task still holds the outgoing receiver
    orderedRx         \* the service driver still holds the ordered receiver

vars == <<pc, expected, pending, forwarded, outgoing, txOut, arrivals,
          rejected, responsesAllowed, outRx, orderedRx>>

TypeOK ==
    /\ pc \in {"run", "done"}
    /\ expected \in CSeqs \cup {NoCSeq}
    /\ pending \subseteq Request
    /\ forwarded \in Seq(Request)
    /\ outgoing \in Seq(Reply)
    /\ arrivals \in Seq([id : Nat, cseq : CSeqs \cup {NoCSeq}])
    /\ rejected \subseteq Nat
    /\ {txOut, responsesAllowed, outRx, orderedRx} \subseteq BOOLEAN

-----------------------------------------------------------------------------

\* `try_send_message` after the write-state check: the reply is queued, or
\* the sender is dropped because the receiver is gone.  Yields the new
\* (outgoing, txOut).
Respond(status) ==
    IF ~(responsesAllowed /\ txOut) THEN <<outgoing, txOut>>
    ELSE IF outRx THEN <<Append(outgoing, [status |-> status, cseq |-> NoCSeq]), TRUE>>
    ELSE <<outgoing, FALSE>>

\* The `while let Some(request) = pending_requests.remove(..)` loop: the
\* requests it forwards, the next expected CSeq, and what stays buffered.
RECURSIVE Drain(_, _)
Drain(pend, exp) ==
    IF \E r \in pend : r.cseq = exp
    THEN LET r == CHOOSE r \in pend : r.cseq = exp
             rest == Drain(pend \ {r}, Increment(exp))
         IN  [rest EXCEPT !.fwd = <<r>> \o @]
    ELSE [fwd |-> <<>>, exp |-> exp, pend |-> pend]

\* `HashMap::insert`: a request with the same CSeq is replaced.
Insert(pend, r) == {p \in pend : p.cseq # r.cseq} \cup {r}

\* The common part of every fold step: the request is taken from the
\* channel, and the task ends if it has lost the outgoing sender.
Receive(c, txOutAfter) ==
    /\ pc = "run" /\ Len(arrivals) < MaxRequests
    /\ arrivals' = Append(arrivals, [id |-> Len(arrivals), cseq |-> c])
    /\ pc' = IF txOutAfter THEN "run" ELSE "done"

\* `Err(_)` from `CSeq::try_from_header_raw`: 400 Bad Request.
ReceiveInvalid ==
    LET r == Respond(400) IN
    /\ Receive(NoCSeq, r[2])
    /\ outgoing' = r[1] /\ txOut' = r[2]
    /\ UNCHANGED <<expected, pending, forwarded, rejected, responsesAllowed, outRx, orderedRx>>

\* Mutant of ReceiveTooFar: the orderer resyncs to the peer's CSeq.
ReceiveTooFarResyncs(c) ==
    LET r == Respond(503) IN
    /\ expected # NoCSeq /\ Distance(c, expected) > RequestsBufferSize
    /\ Receive(c, r[2])
    /\ outgoing' = r[1] /\ txOut' = r[2]
    /\ expected' = c
    /\ rejected' = rejected \cup {Len(arrivals)}
    /\ UNCHANGED <<pending, forwarded, responsesAllowed, outRx, orderedRx>>

\* A valid CSeq too far ahead of the expected one: 503, nothing buffered.
ReceiveTooFar(c) ==
    LET exp == IF expected = NoCSeq THEN c ELSE expected
        r == Respond(503)
    IN
    /\ Distance(c, exp) > RequestsBufferSize
    /\ Receive(c, r[2])
    /\ outgoing' = r[1] /\ txOut' = r[2]
    /\ expected' = exp
    /\ rejected' = rejected \cup {Len(arrivals)}
    /\ UNCHANGED <<pending, forwarded, responsesAllowed, outRx, orderedRx>>

\* Mutant of ReceiveInWindow: the CSeq just received is kept as expected.
ReceiveInWindowKeepsIncoming(c) ==
    LET exp == IF expected = NoCSeq THEN c ELSE expected
        d == Drain(Insert(pending, [id |-> Len(arrivals), cseq |-> c]), exp)
    IN
    /\ Distance(c, exp) <= RequestsBufferSize
    /\ \/ /\ orderedRx \/ d.fwd = <<>>
          /\ Receive(c, txOut)
          /\ forwarded' = forwarded \o d.fwd
          /\ expected' = c /\ pending' = d.pend
       \/ /\ ~orderedRx /\ d.fwd # <<>>
          /\ Receive(c, FALSE)
          /\ UNCHANGED <<forwarded, expected, pending>>
    /\ UNCHANGED <<outgoing, txOut, rejected, responsesAllowed, outRx, orderedRx>>

\* A valid CSeq within the window: buffer it and forward every request
\* that is now in sequence.  A failed forward ends the task at once.
ReceiveInWindow(c) ==
    LET exp == IF expected = NoCSeq THEN c ELSE expected
        d == Drain(Insert(pending, [id |-> Len(arrivals), cseq |-> c]), exp)
    IN
    /\ Distance(c, exp) <= RequestsBufferSize
    /\ \/ /\ orderedRx \/ d.fwd = <<>>
          /\ Receive(c, txOut)
          /\ forwarded' = forwarded \o d.fwd
          /\ expected' = d.exp /\ pending' = d.pend
       \/ /\ ~orderedRx /\ d.fwd # <<>>
          /\ Receive(c, FALSE)
          /\ UNCHANGED <<forwarded, expected, pending>>
    /\ UNCHANGED <<outgoing, txOut, rejected, responsesAllowed, outRx, orderedRx>>

\* The incoming-request channel ends: the fold completes.
StreamEnd ==
    /\ pc = "run"
    /\ pc' = "done"
    /\ UNCHANGED <<expected, pending, forwarded, outgoing, txOut, arrivals,
                   rejected, responsesAllowed, outRx, orderedRx>>

\* Environment: the write state stops allowing responses; the sending task
\* or the service driver drops its receiver.
StopResponses ==
    /\ responsesAllowed /\ responsesAllowed' = FALSE
    /\ UNCHANGED <<pc, expected, pending, forwarded, outgoing, txOut, arrivals,
                   rejected, outRx, orderedRx>>

DropOutgoingReceiver ==
    /\ outRx /\ outRx' = FALSE
    /\ UNCHANGED <<pc, expected, pending, forwarded, outgoing, txOut, arrivals,
                   rejected, responsesAllowed, orderedRx>>

DropOrderedReceiver ==
    /\ orderedRx /\ orderedRx' = FALSE
    /\ UNCHANGED <<pc, expected, pending, forwarded, outgoing, txOut, arrivals,
                   rejected, responsesAllowed, outRx>>

Init ==
    /\ pc = "run" /\ expected = NoCSeq /\ pending = {}
    /\ forwarded = <<>> /\ outgoing = <<>> /\ txOut = TRUE
    /\ arrivals = <<>> /\ rejected = {}
    /\ responsesAllowed = TRUE /\ outRx = TRUE /\ orderedRx = TRUE

Next ==
    \/ ReceiveInvalid
    \/ \E c \in CSeqs : ReceiveTooFar(c) \/ ReceiveInWindow(c)
    \/ StreamEnd
    \/ StopResponses \/ DropOutgoingReceiver \/ DropOrderedReceiver

Spec == Init /\ [][Next]_vars

-----------------------------------------------------------------------------
(***************************************************************************)
(* Properties.                                                             *)
(***************************************************************************)

ValidArrivals == {arrivals[i] : i \in {j \in DOMAIN arrivals : arrivals[j].cseq # NoCSeq}}

FirstCSeq ==
    arrivals[CHOOSE i \in DOMAIN arrivals :
                /\ arrivals[i].cseq # NoCSeq
                /\ \A j \in 1 .. i - 1 : arrivals[j].cseq = NoCSeq].cseq

Ids(s) == {s[i].id : i \in DOMAIN s}

\* CSeq ordering (spec I3): the service receives requests that arrived,
\* each once, in strictly consecutive CSeq order (wrapping at 2^CSeqBits)
\* starting at the first valid CSeq the peer sent, whatever the order,
\* duplicates and far-away CSeqs of the requests in between.
ForwardedInOrder ==
    /\ \A i \in DOMAIN forwarded :
          /\ forwarded[i] \in ValidArrivals
          /\ forwarded[i].cseq = (FirstCSeq + i - 1) % Modulus
    /\ Cardinality(Ids(forwarded)) = Len(forwarded)

\* Window bound: every buffered request is 1 to RequestsBufferSize ahead of
\* the expected CSeq, so the expected one is never left buffered and the
\* buffer holds at most RequestsBufferSize requests, whatever CSeqs a
\* misbehaving peer sends.
PendingWindow ==
    \A r \in pending :
        /\ expected # NoCSeq
        /\ (r.cseq - expected) % Modulus \in 1 .. RequestsBufferSize

\* No request vanishes (spec 1, "must never lose a response that the peer
\* can still receive"): while the task runs, every request with a valid
\* CSeq has been forwarded, is buffered, or was turned away as too far.
NoSilentDrop ==
    pc = "run" =>
        \A a \in ValidArrivals : a.id \in Ids(forwarded) \cup {r.id : r \in pending} \cup rejected

\* Refinement (spec 4.3, I3): the orderer implements OrderedDelivery.  The
\* expected CSeq is the abstract `nxt`: it is fixed by the first valid CSeq
\* and then moves only by the requests forwarded, whatever the 400s, 503s,
\* duplicates and failed sends in between; the service only ever gets more
\* requests appended to what it has.
Delivery == INSTANCE OrderedDelivery
    WITH arrived <- arrivals, delivered <- forwarded, nxt <- expected,
         open <- pc = "run"

ImplementsOrderedDelivery == Delivery!Spec

=============================================================================
