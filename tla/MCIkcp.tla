------------------------------- MODULE MCIkcp -------------------------------
(* The KCP endpoints on small instances, and their liveness.               *)
EXTENDS Ikcp, TLC

CONSTANTS SendsA, SendsB, CapA, CapB

Budget == (A :> SendsA) @@ (B :> SendsB)
Capacity == (A :> CapA) @@ (B :> CapB)

-----------------------------------------------------------------------------
(* Fairness.  Both programs call ikcp_update, ikcp_recv and the socket's    *)
(* receive in an endless loop; the oldest unacknowledged segment expires in *)
(* the end, as does the probe timer; and the network does not lose for ever *)
(* what is sent again and again.  (With one datagram in flight per         *)
(* direction none can be overtaken for ever.)                              *)

\* The network hands over a datagram and keeps no copy.
Consume(e) == \E d \in net[e] : Deliver(e, d) /\ net' # net

\* A flush with all its timers expired whose datagrams all survive.
FlushReaches(e) ==
    \E expired \in SUBSET Transmitted(e) :
        /\ Transmitted(e) # {} => snd_una[e] \in expired
        /\ Flush(e, TRUE, expired, TRUE)

Fairness ==
    \A e \in EP :
        /\ WF_vars(Recv(e))
        /\ WF_vars(Consume(e))
        /\ SF_vars(FlushReaches(e))

FairSpec == Spec /\ Fairness

\* Every message that ikcp_send accepts is eventually read by the peer: as
\* MaxSends bounds the calls, the reader catches up again and again.
EventuallyRead ==
    \A e \in EP : []<>(Len(recvs[Peer(e)]) = Len(sends[e]))

\* ikcp_waitsnd returns to zero: every segment is eventually acknowledged.
EventuallyAcked ==
    \A e \in EP : []<>(snd_queue[e] = <<>> /\ DOMAIN snd_buf[e] = {})

\* A closed remote window reopens, though WINS and WASK may be lost.
WindowReopens ==
    \A e \in EP : rmt_wnd[e] = 0 ~> rmt_wnd[e] > 0
=============================================================================
