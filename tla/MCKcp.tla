------------------------------- MODULE MCKcp --------------------------------
(***************************************************************************)
(* Kcp for TLC: the limits of the streams, and liveness with the fairness  *)
(* it needs.                                                               *)
(***************************************************************************)
EXTENDS Kcp

CONSTANTS LimitA, LimitB
MCStreamLimit == [n \in Node |-> IF n = A THEN LimitA ELSE LimitB]

\* Fairness.  Update() is called over and over: every segment not acknowledged
\* is due some time, the probe timer runs out, and what was received is read.
\* KcpCanOutput does not refuse every time there is something to acknowledge.
\* The network delivers some segment of a kind again and again if there is
\* one again and again.  These are the steps and kinds that exist when only A
\* sends.
Deliver(n, cmd) == \E m \in net : m.to = n /\ m.cmd = cmd /\ Input(m)

FairSpec ==
  /\ Spec
  /\ \A n \in Node : WF_vars(Flush(n, snd_buf[n], TRUE))
  /\ SF_vars(acklist[B] # << >> /\ Flush(B, {}, TRUE))
  /\ WF_vars(Recv(B, Len(rcv_queue[B])))
  /\ SF_vars(Deliver(B, "PUSH")) /\ SF_vars(Deliver(A, "ACK"))
  /\ SF_vars(Deliver(B, "WASK")) /\ SF_vars(Deliver(A, "WINS"))

\* Everything A was given to send is delivered to B in the end, although the
\* network and a refused flush lose segments, acknowledgements and probes.
AllDelivered == []<>(Stream!Total(delivered[B]) = sent[A])

\* A closed window opens again: the announcement that B has room may be lost,
\* but A keeps asking.
WindowReopens == [](rmt_wnd[A] = 0 => <>(rmt_wnd[A] > 0))
=============================================================================
