----------------------------- MODULE Correlator -----------------------------
(***************************************************************************)
(* The response handler task of protocol.rs                                *)
(* (`create_response_handler_task`), which maps responses from the peer to *)
(* the pending outbound requests by CSeq, with the callers that wait on    *)
(* them.  The callers follow `send_request` of the Handle (spec 4.7; the  *)
(* Handle is not part of the source tree): each call takes the next CSeq  *)
(* of a wrapping counter of CSeqBits bits, so that a CSeq can come round  *)
(* while an earlier call with it is still pending.  The task knows a call *)
(* only by its CSeq; `pending` maps a CSeq to the call whose sender the   *)
(* entry holds, and insert replaces an entry as LinkedHashMap does.       *)
(*                                                                         *)
(* A caller registers a pending request (AddPendingRequest on the          *)
(* unbounded update channel) and sends its request; the peer answers on   *)
(* the bounded incoming-response channel, possibly with 100 Continue      *)
(* first.  Each call's one-shot chain is modelled by `chain[c]`, the   *)
(* values delivered to its successive one-shots: "continue" hands over a *)
(* fresh one-shot, "response" and "none" are sent by the task, and         *)
(* "cancel" is what a receiver sees when the sender is dropped unsent.    *)
(* A response without a valid CSeq is handled like one whose CSeq is not  *)
(* pending (nothing happens), so it is not modelled separately.            *)
(***************************************************************************)
EXTENDS Naturals, Sequences, SequencesExt

CONSTANTS
    Calls,                \* the callers of `send_request`, one request each
    CSeqBits,             \* width of the Handle's wrapping CSeq counter
    ResponsesBufferSize,  \* DEFAULT_RESPONSES_BUFFER_SIZE
    MaxContinues,         \* bound: 100 Continue responses per request
    MaxFinals             \* bound: final responses per request (> 1: the
                          \* peer repeats one)

ASSUME CSeqBits \in Nat /\ ResponsesBufferSize \in Nat

CSeqs == 0 .. 2 ^ CSeqBits - 1

\* Mutant of ResponseCapacity: a slot for a second sender clone.
ResponseCapacityTwoSenders == ResponsesBufferSize + 2

\* A futures bounded channel holds the buffer plus one slot per sender.
ResponseCapacity == ResponsesBufferSize + 1

Outcomes == {"continue", "response", "none", "cancel"}
Terminal == Outcomes \ {"continue"}

AddMsg == [op : {"add"}, cseq : CSeqs, call : Calls]
\* `of` is the call whose deadline sent the Remove; the message carries the
\* CSeq alone, and the task never reads `of`.
RemoveMsg == [op : {"remove"}, cseq : CSeqs, of : Calls]

VARIABLES
    cpc,        \* "both" (rx_pending_request is Some), "responses" (None), "done"
    pending,    \* pending_requests: CSeq -> the call whose one-shot sender it holds
    updates,    \* the update channel: AddMsg and RemoveMsg records
    updOpen,    \* the update senders (the Handle) still exist
    responses,  \* the incoming-response channel: [cseq, status, of]; `of`
                \* is the call the peer answers, which the task cannot see
    respOpen,   \* the incoming-response sender (the splitter) still exists
    chain,      \* chain[c]: values delivered on call c's one-shots
    caller,     \* caller[c]: "idle", "waiting", "ok", "none", "cancelled", "timedout"
    pos,        \* pos[c]: the one-shot of chain[c] the caller awaits
    nextCSeq,   \* the Handle's CSeq counter
    reqCSeq,    \* reqCSeq[c]: the CSeq stamped on c's request (0 while idle)
    peerCont,   \* peerCont[c]: 100 Continue responses the peer sent for c
    peerFinal,  \* peerFinal[c]: final responses the peer sent for c
    routed      \* history: <<answered call, call it was delivered to>>

vars == <<cpc, pending, updates, updOpen, responses, respOpen, chain, caller,
          pos, nextCSeq, reqCSeq, peerCont, peerFinal, routed>>

taskVars == <<cpc, pending, updates, responses, routed>>
peerVars == <<peerCont, peerFinal>>
handleVars == <<nextCSeq, reqCSeq>>

TypeOK ==
    /\ cpc \in {"both", "responses", "done"}
    /\ DOMAIN pending \subseteq CSeqs /\ Range(pending) \subseteq Calls
    /\ updates \in Seq(AddMsg \cup RemoveMsg)
    /\ responses \in Seq([cseq : CSeqs, status : {"continue", "final"}, of : Calls])
    /\ Len(responses) <= ResponsesBufferSize + 1
    /\ {updOpen, respOpen} \subseteq BOOLEAN
    /\ chain \in [Calls -> Seq(Outcomes)]
    /\ caller \in [Calls -> {"idle", "waiting", "ok", "none", "cancelled", "timedout"}]
    /\ pos \in [Calls -> Nat \ {0}]
    /\ nextCSeq \in CSeqs /\ reqCSeq \in [Calls -> CSeqs]
    /\ peerCont \in [Calls -> 0 .. MaxContinues]
    /\ peerFinal \in [Calls -> 0 .. MaxFinals]
    /\ routed \subseteq Calls \X Calls

-----------------------------------------------------------------------------

\* Send `v` on the current one-shot of each call in `cs`.
Deliver(ch, cs, v) == [c \in Calls |-> IF c \in cs THEN Append(ch[c], v) ELSE ch[c]]

\* The caller still holds the receiver of call c's chain.
ReceiverAlive(c) == caller[c] = "waiting"

\* The calls whose sender the entry for CSeq k holds (none or one).
Holder(k) == IF k \in DOMAIN pending THEN {pending[k]} ELSE {}

\* `pending_requests.remove(&k)`: the entry and its sender are dropped.
Without(k) == Restrict(pending, DOMAIN pending \ {k})

\* `pending_requests.insert(k, Some(tx))`: an entry already there for k is
\* replaced, and the sender it held is dropped.
AddPending(k, c) ==
    /\ pending' = (k :> c) @@ pending
    /\ chain' = Deliver(chain, Holder(k), "cancel")

\* `pending_requests.remove(&k)` of RemovePendingRequest.
RemovePending(k) ==
    /\ pending' = Without(k)
    /\ chain' = Deliver(chain, Holder(k), "cancel")

\* Mutant of HandleFinal: the entry is read, not removed.
HandleFinalKeepsEntry(r) ==
    /\ pending' = pending
    /\ chain' = Deliver(chain, Holder(r.cseq), "response")
    /\ routed' = routed \cup {<<r.of, h>> : h \in Holder(r.cseq)}

(***************************************************************************)
(* `handle_response(Some(response))`, final status: remove the entry and  *)
(* send Response on it; a CSeq that is not pending is ignored.             *)
(***************************************************************************)
HandleFinal(r) ==
    /\ pending' = Without(r.cseq)
    /\ chain' = Deliver(chain, Holder(r.cseq), "response")
    /\ routed' = routed \cup {<<r.of, h>> : h \in Holder(r.cseq)}

\* Mutant of HandleContinue: a 100 Continue is taken for the final response.
HandleContinueAsFinal(r) == HandleFinal(r)

\* 100 Continue: send Continue(rx') and keep tx'; if the caller dropped the
\* receiver, the send fails and the entry is removed.
HandleContinue(r) ==
    LET h == Holder(r.cseq) IN
    /\ pending' = IF \E c \in h : ~ReceiverAlive(c) THEN Without(r.cseq) ELSE pending
    /\ chain' = Deliver(chain, {c \in h : ReceiverAlive(c)}, "continue")
    /\ UNCHANGED routed

HandleResponse(r) == IF r.status = "final" THEN HandleFinal(r) ELSE HandleContinue(r)

\* The calls whose one-shot senders are still queued in AddPendingRequest.
QueuedAdds == {updates[i].call : i \in {j \in DOMAIN updates : updates[j].op = "add"}}

\* `handle_response(None)`: every pending entry gets None and the map is
\* left behind with the task.
EndOfResponses(ch) ==
    /\ chain' = Deliver(ch, Range(pending), "none")
    /\ pending' = <<>>
    /\ UNCHANGED routed

(***************************************************************************)
(* Both streams open: `select2` polls the response stream first, so this  *)
(* is taken whenever a response is there.  At the end of the stream the   *)
(* task ends, which drops the update receiver and with it the senders of  *)
(* the adds still queued.                                                   *)
(***************************************************************************)
TakeResponse ==
    /\ cpc = "both"
    /\ \/ /\ responses # <<>>
          /\ HandleResponse(Head(responses))
          /\ responses' = Tail(responses)
          /\ UNCHANGED <<cpc, updates>>
       \/ /\ responses = <<>> /\ ~respOpen
          /\ EndOfResponses(Deliver(chain, QueuedAdds, "cancel"))
          /\ cpc' = "done" /\ updates' = <<>>
          /\ UNCHANGED responses
    /\ UNCHANGED <<updOpen, respOpen, caller, pos, handleVars, peerVars>>

\* Mutant of TakeResponseOnly: the end of the stream goes unnoticed when
\* only responses are left.
TakeResponseOnlyIgnoresEnd ==
    /\ cpc = "responses" /\ responses # <<>>
    /\ HandleResponse(Head(responses))
    /\ responses' = Tail(responses)
    /\ cpc' = IF DOMAIN pending' = {} THEN "done" ELSE cpc
    /\ UNCHANGED <<updates, updOpen, respOpen, caller, pos, handleVars, peerVars>>

\* Updates gone, responses only: the task ends when the stream does or when
\* nothing is pending any more.
TakeResponseOnly ==
    /\ cpc = "responses"
    /\ \/ /\ responses # <<>>
          /\ HandleResponse(Head(responses))
          /\ responses' = Tail(responses)
          /\ cpc' = IF DOMAIN pending' = {} THEN "done" ELSE cpc
       \/ /\ responses = <<>> /\ ~respOpen
          /\ EndOfResponses(chain)
          /\ cpc' = "done"
          /\ UNCHANGED responses
    /\ UNCHANGED <<updates, updOpen, respOpen, caller, pos, handleVars, peerVars>>

(***************************************************************************)
(* The update stream is ready and the response stream is not.  Add       *)
(* inserts the entry; Remove drops it, and with it the sender.  At the end *)
(* of the stream the task ends if nothing is pending, and otherwise goes  *)
(* on with responses only.                                                 *)
(***************************************************************************)
TakeUpdate ==
    /\ cpc = "both"
    /\ responses = <<>> /\ respOpen
    /\ \/ /\ updates # <<>>
          /\ LET u == Head(updates) IN
             IF u.op = "add" THEN AddPending(u.cseq, u.call) ELSE RemovePending(u.cseq)
          /\ updates' = Tail(updates)
          /\ UNCHANGED cpc
       \/ /\ updates = <<>> /\ ~updOpen
          /\ cpc' = IF DOMAIN pending = {} THEN "done" ELSE "responses"
          /\ UNCHANGED <<pending, updates, chain>>
    /\ UNCHANGED <<responses, updOpen, respOpen, caller, pos, handleVars, peerVars, routed>>

-----------------------------------------------------------------------------
(***************************************************************************)
(* The caller (spec 4.7 `send_request`).                                  *)
(***************************************************************************)

\* Spec 4.7 step 1: the next CSeq of the wrapping counter.
Stamp(c) ==
    /\ reqCSeq' = [reqCSeq EXCEPT ![c] = nextCSeq]
    /\ nextCSeq' = (nextCSeq + 1) % 2 ^ CSeqBits

\* Mutant of SendRequest: a failed registration goes unnoticed.
SendRequestIgnoresClosed(c) ==
    /\ caller[c] = "idle" /\ updOpen
    /\ caller' = [caller EXCEPT ![c] = "waiting"]
    /\ Stamp(c)
    /\ updates' = IF cpc = "both"
                  THEN Append(updates, [op |-> "add", cseq |-> nextCSeq, call |-> c])
                  ELSE updates
    /\ UNCHANGED <<cpc, pending, updOpen, responses, respOpen, chain, pos, peerVars, routed>>

\* Take a CSeq, register the pending request under it, then send the
\* request to the peer.  Once the update channel's receiver is gone the
\* registration fails and the sender inside it is dropped.
SendRequest(c) ==
    /\ caller[c] = "idle" /\ updOpen
    /\ caller' = [caller EXCEPT ![c] = "waiting"]
    /\ Stamp(c)
    /\ IF cpc = "both"
       THEN updates' = Append(updates, [op |-> "add", cseq |-> nextCSeq, call |-> c])
            /\ chain' = chain
       ELSE updates' = updates /\ chain' = Deliver(chain, {c}, "cancel")
    /\ UNCHANGED <<cpc, pending, updOpen, responses, respOpen, pos, peerVars, routed>>

\* The caller takes the value of the one-shot it awaits.
Consume(c) ==
    /\ caller[c] = "waiting" /\ pos[c] <= Len(chain[c])
    /\ LET v == chain[c][pos[c]] IN
       /\ pos' = [pos EXCEPT ![c] = @ + 1]
       /\ caller' = [caller EXCEPT ![c] =
                       CASE v = "continue" -> "waiting"
                         [] v = "response" -> "ok"
                         [] v = "none"     -> "none"
                         [] v = "cancel"   -> "cancelled"]
    /\ UNCHANGED <<taskVars, updOpen, respOpen, chain, handleVars, peerVars>>

\* The per-request deadline fires: drop the receiver and send Remove for
\* the request's CSeq, through the Handle's sender while the update stream
\* is open.
Timeout(c) ==
    /\ caller[c] = "waiting"
    /\ caller' = [caller EXCEPT ![c] = "timedout"]
    /\ updates' = IF cpc = "both" /\ updOpen THEN Append(updates, [op |-> "remove", cseq |-> reqCSeq[c], of |-> c])
                  ELSE updates
    /\ UNCHANGED <<cpc, pending, updOpen, responses, respOpen, chain, pos, handleVars,
                   peerVars, routed>>

\* The Handle is dropped: the update stream ends.
DropHandle ==
    /\ updOpen /\ updOpen' = FALSE
    /\ UNCHANGED <<taskVars, respOpen, chain, caller, pos, handleVars, peerVars>>

-----------------------------------------------------------------------------
(***************************************************************************)
(* The peer, through the splitter: responses carrying the CSeq of a       *)
(* request it has seen, while the response channel has room; the splitter *)
(* may end the stream.                                                     *)
(***************************************************************************)
PeerRespond(c, status) ==
    /\ caller[c] # "idle" /\ respOpen /\ cpc # "done"
    /\ Len(responses) < ResponseCapacity
    /\ responses' = Append(responses, [cseq |-> reqCSeq[c], status |-> status, of |-> c])

PeerContinue(c) ==
    /\ peerCont[c] < MaxContinues /\ peerFinal[c] = 0
    /\ PeerRespond(c, "continue")
    /\ peerCont' = [peerCont EXCEPT ![c] = @ + 1]
    /\ UNCHANGED <<cpc, pending, updates, updOpen, respOpen, chain, caller, pos,
                   handleVars, peerFinal, routed>>

PeerFinal(c) ==
    /\ peerFinal[c] < MaxFinals
    /\ PeerRespond(c, "final")
    /\ peerFinal' = [peerFinal EXCEPT ![c] = @ + 1]
    /\ UNCHANGED <<cpc, pending, updates, updOpen, respOpen, chain, caller, pos,
                   handleVars, peerCont, routed>>

EndResponses ==
    /\ respOpen /\ respOpen' = FALSE
    /\ UNCHANGED <<taskVars, updOpen, chain, caller, pos, handleVars, peerVars>>

-----------------------------------------------------------------------------

Init ==
    /\ cpc = "both" /\ pending = <<>> /\ updates = <<>> /\ updOpen = TRUE
    /\ responses = <<>> /\ respOpen = TRUE
    /\ chain = [c \in Calls |-> <<>>]
    /\ caller = [c \in Calls |-> "idle"]
    /\ pos = [c \in Calls |-> 1]
    /\ nextCSeq = 0 /\ reqCSeq = [c \in Calls |-> 0]
    /\ peerCont = [c \in Calls |-> 0] /\ peerFinal = [c \in Calls |-> 0]
    /\ routed = {}

Next ==
    \/ TakeResponse \/ TakeResponseOnly \/ TakeUpdate
    \/ \E c \in Calls : SendRequest(c) \/ Consume(c) \/ Timeout(c)
    \/ DropHandle
    \/ \E c \in Calls : PeerContinue(c) \/ PeerFinal(c)
    \/ EndResponses

\* The task is polled whenever one of its streams is ready, and a caller
\* polls its future until it resolves.  The peer, the splitter, the Handle
\* and the deadlines are the environment: no fairness.
Fairness ==
    /\ WF_vars(TakeResponse)
    /\ WF_vars(TakeResponseOnly)
    /\ WF_vars(TakeUpdate)
    /\ \A c \in Calls : WF_vars(Consume(c))

Spec == Init /\ [][Next]_vars /\ Fairness

-----------------------------------------------------------------------------
(***************************************************************************)
(* Properties.                                                             *)
(***************************************************************************)

\* At most one terminal delivery (spec I4): on every call's one-shot
\* chain, Response, None or a dropped sender comes only last, after any
\* number of Continues, however the peer repeats final responses and
\* however removals, Continues and the end of the stream interleave.
ExactlyOneOutcome ==
    \A c \in Calls : \A i \in DOMAIN chain[c] :
        chain[c][i] \in Terminal => i = Len(chain[c])

\* Nobody is left waiting on a finished task: once the task has ended,
\* every caller that still waits has a terminal value coming on its
\* chain: the end-of-stream walk reaches every pending entry, the adds
\* still queued lose their senders, and a registration after the end fails.
NoCallerStranded ==
    cpc = "done" =>
        \A c \in Calls : caller[c] = "waiting" =>
            \E i \in pos[c] .. Len(chain[c]) : chain[c][i] \in Terminal

\* The task ends (spec 4.5): once the splitter has ended the response
\* stream, the task finishes, with updates still coming or with only
\* responses left.
TaskEnds == ~respOpen ~> cpc = "done"

\* Every call resolves (spec P4): once the response stream has ended, a
\* caller that still waits gets its result, whether its entry was in the
\* map, its AddPendingRequest was still queued, or it registered after the
\* task had ended, and whether the task still took updates or only
\* responses.
CallsResolve ==
    \A c \in Calls : (caller[c] = "waiting" /\ ~respOpen) ~> caller[c] # "waiting"

\* Responses are correlated (spec 4.5): a final response the task delivers
\* goes to the caller whose request the peer answered, never to another
\* one, although the task matches on the CSeq alone and the Handle's
\* counter wraps.
AnswerGoesToAsker == \A p \in routed : p[1] = p[2]

\* A deadline cancels only its own call (spec 4.5, RemovePendingRequest):
\* when the task takes a Remove off the update channel, the entry it drops
\* for that CSeq, if there is one, belongs to the call whose deadline sent
\* it, never to a later call that was stamped with the same CSeq or took
\* the entry over, although the message carries only the CSeq.
RemoveHitsSender ==
    [][ ( /\ cpc = "both" /\ cpc' = "both"
          /\ updates # <<>> /\ updates' = Tail(updates)
          /\ Head(updates).op = "remove" )
        => Holder(Head(updates).cseq) \subseteq {Head(updates).of} ]_vars

\* Refinement: the callers' results are those of CallOutcome, with the
\* calls the peer answered read off the final responses it sent.
Outcome == INSTANCE CallOutcome
    WITH call <- caller,
         answered <- {c \in Calls : peerFinal[c] > 0}, streamOpen <- respOpen

ImplementsCallOutcome == Outcome!Spec

\* A response reaches its caller (spec S5): when the task takes a final
\* response off the channel for a call that still waits and has no
\* response yet, that call's entry is pending, so the response is
\* delivered rather than dropped.
ResponseReachesCaller ==
    [][ \A c \in Calls :
          ( /\ responses # <<>> /\ responses' = Tail(responses)
            /\ Head(responses) = [cseq |-> reqCSeq[c], status |-> "final", of |-> c]
            /\ caller[c] = "waiting" /\ "response" \notin ToSet(chain[c]) )
          => reqCSeq[c] \in DOMAIN pending ]_vars

=============================================================================
