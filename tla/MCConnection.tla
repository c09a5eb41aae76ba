---------------------------- MODULE MCConnection ----------------------------
(***************************************************************************)
(* Connection for TLC: which protocols the application enables, and the    *)
(* fairness under which the handshake completes.                           *)
(***************************************************************************)
EXTENDS Connection, TLC

MCEverything == BOOLEAN \X BOOLEAN
MCTcpAlone == {<<FALSE, TRUE>>}
Servers == Permutations(Server)
MCConnecting == {<<TRUE, TRUE>>, <<TRUE, FALSE>>}

CurrentSocket == IF m_transport_use_protocol = "TCP" THEN tcp ELSE udp
Usable == \/ m_transport_use_protocol = "TCP" /\ tcp # Invalid /\ tcp.link = "OPEN"
          \/ m_transport_use_protocol = "UDP" /\ udp # Invalid
OverLeft == m_transport_use_protocol = "TCP" /\ tcp # Invalid /\ tcp.left

\* The application goes on sending.  A request sent again and again arrives at
\* the server some time, and so does the answer.  While no connection comes
\* about the application reconnects, and of the attempts some succeeds.
Request == SendOneCode(TRUE) /\ CurrentSocket' # Invalid /\ CurrentSocket'.asked
Answer  == SendOneCode(TRUE) /\ m_conv' # m_conv
Retry   == ~Usable /\ m_connect_status = "CONNECT_ING" /\ ReconnectLogicServer

FairSpec ==
  /\ Spec
  /\ WF_vars(SendOneCode(TRUE)) /\ SF_vars(Request) /\ SF_vars(Answer)
  /\ WF_vars(Retry) /\ SF_vars(Retry /\ Usable')

\* The handshake completes, whatever datagrams are lost and however often the
\* application reconnects in between: GetConvFromServer asks again until the
\* server has assigned a conv, unless the session is closed or told to exit, or
\* goes on over a TCP connection that ChangeAddress left open.
HandshakeCompletes ==
  m_connect_status = "CONNECT_ING" ~>
    \/ m_conv # Invalid \/ m_connect_status = "UNCONNECT"
    \/ m_kcp_status = "EXIT" \/ OverLeft
=============================================================================
