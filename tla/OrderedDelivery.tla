-------------------------- MODULE OrderedDelivery --------------------------
(***************************************************************************)
(* What the request orderer promises the service (spec 4.3, I3), with the *)
(* HashMap, the window and the replies left out.  Requests arrive one at  *)
(* a time, with a CSeq or without one.  The first valid CSeq fixes where  *)
(* delivery starts; from then on the service gets requests that have      *)
(* arrived, each at most once, with consecutive CSeqs modulo Modulus.  An *)
(* arrival may release several requests at once.  The orderer may stop    *)
(* at any time, and the request that finds the service gone is lost.       *)
(***************************************************************************)
EXTENDS Integers, Sequences, SequencesExt

CONSTANTS
    Modulus,   \* 2^bits of a CSeq
    NoCSeq     \* an arrival without a valid CSeq; also "not started"

VARIABLES
    arrived,    \* the requests received, in order: [id, cseq]
    delivered,  \* the requests handed to the service, in order
    nxt,        \* the CSeq delivered next, or NoCSeq before the first valid one
    open        \* the orderer still takes requests

vars == <<arrived, delivered, nxt, open>>

Init == arrived = <<>> /\ delivered = <<>> /\ nxt = NoCSeq /\ open = TRUE

\* `delivered'` extends `delivered` by requests that have arrived, were not
\* delivered before, and carry the CSeqs from `from` on, one after another.
ConsecutiveFrom(from) ==
    /\ IsPrefix(delivered, delivered')
    /\ \A i \in Len(delivered) + 1 .. Len(delivered') :
          /\ delivered'[i] \in ToSet(arrived')
          /\ delivered'[i] \notin ToSet(delivered)
          /\ delivered'[i].cseq = (from + i - Len(delivered) - 1) % Modulus

\* A request with CSeq c arrives and releases a batch, perhaps empty.
Arrive(c) ==
    LET from == IF nxt = NoCSeq THEN c ELSE nxt IN
    /\ open
    /\ arrived' = Append(arrived, [id |-> Len(arrived), cseq |-> c])
    /\ IF from = NoCSeq
       THEN UNCHANGED <<delivered, nxt>>
       ELSE /\ ConsecutiveFrom(from)
            /\ nxt' = (from + Len(delivered') - Len(delivered)) % Modulus
    /\ open' \in BOOLEAN

\* A request arrives after the service has gone; the orderer stops.
ArriveLost(c) ==
    /\ open /\ ~open'
    /\ arrived' = Append(arrived, [id |-> Len(arrived), cseq |-> c])
    /\ UNCHANGED <<delivered, nxt>>

Close ==
    /\ open /\ ~open'
    /\ UNCHANGED <<arrived, delivered, nxt>>

Next == Close \/ \E c \in 0 .. Modulus - 1 \cup {NoCSeq} : Arrive(c) \/ ArriveLost(c)

Spec == Init /\ [][Next]_vars

=============================================================================
