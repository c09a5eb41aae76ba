--------------------------- MODULE ConnectionProofs ---------------------------
(***************************************************************************)
(* Proofs about Connection, for any set of servers, any mix of protocols   *)
(* and any bound on m_un_send_queue.  The conv in use comes from where the *)
(* sockets lead to, so that has to be known: to the server asked for, or   *)
(* the socket is one that ChangeAddress left open.                         *)
(***************************************************************************)
EXTENDS Connection, TLAPS

\* No socket, or one that has outlived a change of address.
Outlived(sock) == sock = Invalid \/ sock.left

\* Other sockets that may be read lead to the server asked for.
SocketsOfTarget ==
  /\ Outlived(tcp) \/ tcp.server = m_server_ip
  /\ udp # Invalid /\ m_transport_use_protocol = "UDP" => udp.server = m_server_ip

\* A session that the server has closed keeps no TCP socket of its own.
ClosedHasNoTcp == m_connect_status = "UNCONNECT" => Outlived(tcp)

\* The inductive invariant.
CInv == /\ TypeOK /\ TcpOnlyInUse /\ ClosedHasNoTcp
        /\ SocketsOfTarget /\ SuccessHasSocket

\* What connecting leaves alone.
Rest == <<m_kcp_status, m_conv, m_server_ip, use, will_send>>

\* What a connected socket keeps: where it leads, and whether it outlived.
Alike(a, b) == a.server = b.server /\ a.left = b.left

MaybeTcp == TcpSocket \cup {Invalid}
MaybeUdp == UdpSocket \cup {Invalid}

-----------------------------------------------------------------------------
\* A new socket leads to the server asked for.
LEMMA NewSocketFacts ==
  ASSUME TypeOK, NEW link \in {"PENDING", "OPEN", "EOF", "REFUSED"}, NEW error \in BOOLEAN
  PROVE  /\ NewTcpSocket(link, error) \in TcpSocket
         /\ NewTcpSocket(link, error).server = m_server_ip
         /\ ~NewTcpSocket(link, error).left
  BY DEF NewTcpSocket, TcpSocket, TypeOK

\* So does the socket that TcpConnection::Connect leaves, if the one that it
\* kept did.
LEMMA ConnectedFacts ==
  ASSUME TypeOK, NEW sock \in MaybeTcp, NEW new \in Connected(sock),
         Outlived(sock) \/ sock.server = m_server_ip
  PROVE  new \in TcpSocket /\ (Outlived(new) \/ new.server = m_server_ip)
<1>1. CASE sock = Invalid \/ sock.error
  <2>1. new \in {NewTcpSocket("OPEN", FALSE), NewTcpSocket("PENDING", TRUE),
                 NewTcpSocket("REFUSED", TRUE)}
    BY <1>1 DEF Connected
  <2> QED
    BY <2>1, NewSocketFacts
<1>2. CASE ~(sock = Invalid \/ sock.error)
  <2>1. sock \in TcpSocket
    BY <1>2 DEF MaybeTcp
  <2> DEFINE again == sock.kept \/ ~use[1]
             same == [sock EXCEPT !.kept = again]
  <2>2. \/ new = same
        \/ new = [same EXCEPT !.error = TRUE]
        \/ \E b \in BOOLEAN : new = [same EXCEPT !.rx_inside = b]
    BY <1>2 DEF Connected
  <2>3. again \in BOOLEAN
    BY Zenon
  <2> HIDE DEF again
  <2>4. same \in TcpSocket /\ Alike(same, sock)
    BY <2>1, <2>3 DEF TcpSocket, Alike
  <2> HIDE DEF same
  <2>5. new \in TcpSocket /\ Alike(new, same)
    BY <2>2, <2>4 DEF TcpSocket, Alike
  <2> QED
    BY <1>2, <2>4, <2>5 DEF Alike, Outlived
<1> QED
  BY <1>1, <1>2

\* Sending changes neither whether there is a socket nor where it leads.
LEMMA SendTcpFacts ==
  ASSUME half_sent \in BOOLEAN, NEW sock \in MaybeTcp, NEW queue \in Seq(Item),
         NEW s \in SendTcp(sock, queue)
  PROVE  /\ s.sock \in MaybeTcp
         /\ s.sock = Invalid <=> sock = Invalid
         /\ sock # Invalid => Alike(s.sock, sock)
         /\ s.queue \in Seq(Item) /\ s.half \in BOOLEAN
<1>1. CASE s = [sock |-> sock, queue |-> queue, half |-> half_sent]
  BY <1>1 DEF Alike
<1>2. CASE s # [sock |-> sock, queue |-> queue, half |-> half_sent]
  <2>1. sock # Invalid
    BY <1>2 DEF SendTcp
  <2>2. PICK k \in 0 .. Len(queue), h \in BOOLEAN :
          s = [sock |-> Wrote(sock, queue, k, h),
               queue |-> SubSeq(queue, k + 1, Len(queue)), half |-> h]
    BY <1>2 DEF SendTcp
  <2>3. sock \in TcpSocket
    BY <2>1 DEF MaybeTcp
  <2>4. \A items : Begun(sock, items) \in {"NOTHING", "KEY", "MIXED"}
    BY <2>3 DEF Begun, TcpSocket
  <2>5. Wrote(sock, queue, k, h) \in TcpSocket /\ Alike(Wrote(sock, queue, k, h), sock)
    BY <2>3, <2>4, ZenonT(60) DEF Wrote, TcpSocket, Alike
  <2>6. SubSeq(queue, k + 1, Len(queue)) \in Seq(Item)
    OBVIOUS
  <2> QED
    BY <2>1, <2>2, <2>3, <2>5, <2>6, InvalidAssumption DEF MaybeTcp
<1> QED
  BY <1>1, <1>2

\* Reading keeps the socket or closes it.
LEMMA ReadsFacts ==
  ASSUME NEW sock \in TcpSocket, NEW part \in Part, NEW r \in Reads(sock, part)
  PROVE  /\ r.sock \in TcpSocket /\ Alike(r.sock, sock)
         /\ r.part \in Part
<1>1. \/ r = [sock |-> sock, part |-> part, kind |-> "NONE"]
      \/ \E b \in BOOLEAN, p \in Part, k \in {"NONE"} \cup Kinds(sock) :
           r = [sock |-> [sock EXCEPT !.rx_inside = b], part |-> p, kind |-> k]
  BY DEF Reads, Nothing, Part
<1> QED
  BY <1>1 DEF TcpSocket, Alike

LEMMA ReceiveTcpFacts ==
  ASSUME NEW sock \in MaybeTcp, NEW part \in Part, NEW r \in ReceiveTcp(sock, part)
  PROVE  /\ r.sock \in MaybeTcp /\ r.part \in Part
         /\ r.sock # Invalid => sock # Invalid /\ Alike(r.sock, sock)
         /\ sock = Invalid => r = Nothing(Invalid, part)
<1>1. CASE sock = Invalid \/ sock.link = "PENDING"
  BY <1>1 DEF ReceiveTcp, Nothing, MaybeTcp, Alike
<1>2. CASE ~(sock = Invalid \/ sock.link = "PENDING")
  <2>1. sock \in TcpSocket
    BY <1>2 DEF MaybeTcp
  <2>2. CASE sock.link = "REFUSED"
    BY <1>2, <2>1, <2>2 DEF ReceiveTcp, Nothing, MaybeTcp, Alike
  <2>3. CASE sock.link = "OPEN"
    BY <1>2, <2>1, <2>3, ReadsFacts, InvalidAssumption DEF ReceiveTcp, MaybeTcp
  <2>4. CASE sock.link # "REFUSED" /\ sock.link # "OPEN"
    <3>1. PICK read \in Reads(sock, part) : r = [read EXCEPT !.sock = Invalid]
      BY <1>2, <2>1, <2>4 DEF ReceiveTcp
    <3>2. read.part \in Part
      BY <2>1, <3>1, ReadsFacts
    <3>3. \E x, p, k : read = [sock |-> x, part |-> p, kind |-> k]
      BY <3>1 DEF Reads, Nothing
    <3> QED
      BY <1>2, <3>1, <3>2, <3>3 DEF MaybeTcp
  <2> QED
    BY <2>2, <2>3, <2>4
<1> QED
  BY <1>1, <1>2

-----------------------------------------------------------------------------
(* Connecting *)

LEMMA StartUdpStep ==
  ASSUME CInv, NEW items \in Seq(Item), StartUdp(items), tcp' \in {tcp, Invalid},
         Outlived(tcp'), UNCHANGED Rest
  PROVE  CInv'
<1>1. TypeOK
  BY DEF CInv
<1>2. udp' = Invalid \/ udp' = [server |-> m_server_ip, asked |-> FALSE]
  BY DEF StartUdp
<1> DEFINE new == [server |-> m_server_ip, asked |-> FALSE]
<1>a. m_server_ip \in Server
  BY <1>1 DEF TypeOK
<1>b. new \in UdpSocket /\ new.server = m_server_ip
  BY <1>a, Zenon DEF UdpSocket
<1>3. udp' \in UdpSocket \cup {Invalid} /\ (udp' # Invalid => udp'.server = m_server_ip)
  <2> HIDE DEF new
  <2>1. udp' = Invalid \/ udp' = new
    BY <1>2 DEF new
  <2> QED
    BY <2>1, <1>b
<1>4. /\ m_connect_status' = "CONNECT_ING" /\ m_transport_use_protocol' = "UDP"
      /\ m_un_send_queue' = items /\ half_sent' = FALSE /\ m_un_receive_queue' = "EMPTY"
  BY DEF StartUdp, StatusIs, QueuesHoldOnly
<1>5. TypeOK'
  BY <1>1, <1>3, <1>4 DEF TypeOK, Rest, Part
<1>6. SocketsOfTarget'
  BY <1>3 DEF SocketsOfTarget, Rest
<1>7. TcpOnlyInUse' /\ ClosedHasNoTcp' /\ SuccessHasSocket'
  BY <1>4 DEF TcpOnlyInUse, ClosedHasNoTcp, SuccessHasSocket, Outlived
<1> QED
  BY <1>5, <1>6, <1>7 DEF CInv

LEMMA StartTcpStep ==
  ASSUME CInv, NEW sock \in {tcp, Invalid}, StartTcp(sock), udp' \in {udp, Invalid},
         UNCHANGED Rest
  PROVE  CInv'
<1>1. TypeOK /\ SocketsOfTarget
  BY DEF CInv
<1>2. sock \in MaybeTcp /\ (Outlived(sock) \/ sock.server = m_server_ip)
  BY <1>1 DEF TypeOK, SocketsOfTarget, MaybeTcp, Outlived
<1>3. tcp' \in TcpSocket /\ (Outlived(tcp') \/ tcp'.server = m_server_ip)
  BY <1>1, <1>2, ConnectedFacts DEF StartTcp
<1>4. /\ m_connect_status' = "CONNECT_ING" /\ m_transport_use_protocol' = "TCP"
      /\ m_un_send_queue' = <<"KEY">> /\ half_sent' = FALSE /\ m_un_receive_queue' = "EMPTY"
  BY DEF StartTcp, StatusIs, QueuesHoldOnly
<1>5. <<"KEY">> \in Seq(Item)
  BY DEF Item
<1>6. udp' \in UdpSocket \cup {Invalid}
  BY <1>1 DEF TypeOK
<1>7. TypeOK'
  BY <1>1, <1>3, <1>4, <1>5, <1>6 DEF TypeOK, Rest, Part
<1>8. SocketsOfTarget'
  BY <1>3, <1>4 DEF SocketsOfTarget, Rest
<1>9. TcpOnlyInUse' /\ ClosedHasNoTcp' /\ SuccessHasSocket'
  BY <1>4 DEF TcpOnlyInUse, ClosedHasNoTcp, SuccessHasSocket
<1> QED
  BY <1>7, <1>8, <1>9 DEF CInv

\* A step that changes no more than what the application wants to use.
LEMMA NothingConnects ==
  ASSUME CInv, use' \in Protocols,
         UNCHANGED <<status, m_conv, m_server_ip, will_send, queues, udp, tcp>>
  PROVE  CInv'
BY DEF CInv, TypeOK, TcpOnlyInUse, ClosedHasNoTcp, SocketsOfTarget, SuccessHasSocket,
       status, queues

LEMMA FirstConnectStep ==
  ASSUME CInv, m_connect_status = "UNCONNECT", FirstConnect, UNCHANGED Rest
  PROVE  CInv'
<1>1. Outlived(tcp)
  BY DEF CInv, ClosedHasNoTcp
<1>2. <<"KEY">> \in Seq(Item)
  BY DEF Item
<1>3. CASE StartUdp(<<"KEY">>) /\ UNCHANGED tcp
  BY <1>1, <1>2, <1>3, StartUdpStep
<1>4. CASE StartTcp(Invalid) /\ UNCHANGED udp
  BY <1>4, StartTcpStep
<1>5. CASE UNCHANGED <<queues, m_connect_status, m_transport_use_protocol, udp, tcp>>
  <2>1. use' \in Protocols
    BY DEF CInv, TypeOK, Rest
  <2> QED
    BY <1>5, <2>1, NothingConnects DEF Rest, status
<1> QED
  BY <1>3, <1>4, <1>5 DEF FirstConnect

LEMMA ReconnectStep ==
  ASSUME CInv, Reconnect, UNCHANGED Rest
  PROVE  CInv'
<1>1. << >> \in Seq(Item) /\ Outlived(Invalid)
  BY DEF Outlived
<1>2. CASE ReconnectBoth
  <2>1. CASE /\ m_connect_status = "CONNECT_ING" /\ m_transport_use_protocol = "TCP"
             /\ tcp' = Invalid /\ StartUdp(<< >>)
    BY <1>1, <2>1, StartUdpStep
  <2>2. CASE udp' = Invalid /\ StartTcp(tcp)
    BY <2>2, StartTcpStep
  <2>3. CASE StartTcp(Invalid) /\ UNCHANGED udp
    BY <2>3, StartTcpStep
  <2>4. CASE m_transport_use_protocol # "TCP" /\ StartUdp(<< >>) /\ UNCHANGED tcp
    <3>1. tcp' = tcp /\ Outlived(tcp)
      BY <2>4 DEF CInv, TcpOnlyInUse, Outlived
    <3> QED
      BY <1>1, <2>4, <3>1, StartUdpStep
  <2>5. CASE m_connect_status = "UNCONNECT" /\ FirstConnect
    BY <2>5, FirstConnectStep
  <2> QED
    BY <1>2, <2>1, <2>2, <2>3, <2>4, <2>5 DEF ReconnectBoth
<1>3. CASE tcp' = Invalid /\ StartUdp(<< >>)
  BY <1>1, <1>3, StartUdpStep
<1>4. CASE StartTcp(tcp) /\ UNCHANGED udp
  BY <1>4, StartTcpStep
<1> QED
  BY <1>2, <1>3, <1>4 DEF Reconnect

-----------------------------------------------------------------------------
(* Closing, and a new address *)

LEMMA CloseStep ==
  ASSUME CInv, CloseLogicConnect PROVE CInv'
<1>1. TypeOK /\ TcpOnlyInUse
  BY DEF CInv
<1>2. tcp' \in {tcp, Invalid} /\ Outlived(tcp')
  BY <1>1 DEF CloseLogicConnect, TcpOnlyInUse, Outlived
<1>3. udp' \in UdpSocket \cup {Invalid}
  BY <1>1 DEF CloseLogicConnect, TypeOK
<1>4. /\ m_connect_status' = "UNCONNECT" /\ m_transport_use_protocol' = "UNKNOW"
      /\ m_kcp_status' = "UN_CONNECT" /\ m_un_send_queue' = << >> /\ half_sent' = FALSE
      /\ m_un_receive_queue' = "EMPTY" /\ UNCHANGED <<m_conv, m_server_ip, use, will_send>>
  BY DEF CloseLogicConnect, StatusIs, QueuesHoldOnly
<1>5. << >> \in Seq(Item)
  OBVIOUS
<1>6. TypeOK'
  BY <1>1, <1>2, <1>3, <1>4, <1>5 DEF TypeOK, Part
<1>7. TcpOnlyInUse' /\ ClosedHasNoTcp' /\ SocketsOfTarget'
  BY <1>2, <1>4 DEF TcpOnlyInUse, ClosedHasNoTcp, SocketsOfTarget, Outlived
<1> QED
  BY <1>4, <1>6, <1>7 DEF CInv, SuccessHasSocket

\* A TCP socket that is open outlives the change of address.
LEMMA ChangeAddressStep ==
  ASSUME CInv, NEW s \in Server, ChangeAddress(s) PROVE CInv'
<1>1. TypeOK
  BY DEF CInv
<1>2. tcp' \in TcpSocket \cup {Invalid} /\ Outlived(tcp')
  <2>1. CASE tcp = Invalid
    BY <2>1 DEF ChangeAddress, Outlived
  <2>2. CASE tcp # Invalid
    <3>1. tcp \in TcpSocket /\ tcp' = [tcp EXCEPT !.left = TRUE]
      BY <1>1, <2>2 DEF ChangeAddress, TypeOK
    <3> QED
      BY <3>1 DEF TcpSocket, Outlived
  <2> QED
    BY <2>1, <2>2
<1>3. /\ m_connect_status' = "UNCONNECT" /\ m_transport_use_protocol' = "UNKNOW"
      /\ m_kcp_status' = "CONNECT" /\ m_conv' = Invalid /\ will_send' = FALSE
      /\ m_server_ip' = s /\ m_un_send_queue' = << >> /\ half_sent' = FALSE
      /\ m_un_receive_queue' = "EMPTY" /\ UNCHANGED <<use, udp>>
  BY DEF ChangeAddress, StatusIs, QueuesHoldOnly
<1>4. << >> \in Seq(Item)
  OBVIOUS
<1>5. TypeOK'
  BY <1>1, <1>2, <1>3, <1>4 DEF TypeOK, Part
<1>6. TcpOnlyInUse' /\ ClosedHasNoTcp' /\ SocketsOfTarget'
  BY <1>2, <1>3 DEF TcpOnlyInUse, ClosedHasNoTcp, SocketsOfTarget, Outlived
<1> QED
  BY <1>3, <1>5, <1>6 DEF CInv, SuccessHasSocket

-----------------------------------------------------------------------------
(* Update *)

\* A conv is taken from the server that sent the packet, or not at all.
LEMMA HandleFacts ==
  ASSUME TypeOK, NEW kind, NEW server \in Server \cup {Invalid},
         NEW has_data \in BOOLEAN, Handle(kind, server, has_data)
  PROVE  /\ m_conv' \in Server \cup {Invalid} /\ m_conv' \in {m_conv, server}
         /\ m_kcp_status' \in {"UN_CONNECT", "CONNECT", "EXIT"} /\ will_send' \in BOOLEAN
<1>1. m_conv' = m_conv \/ m_conv' = server
  BY DEF Handle
<1>2. m_conv' \in Server \cup {Invalid}
  BY <1>1 DEF TypeOK
<1>3. m_kcp_status' \in {"UN_CONNECT", "CONNECT", "EXIT"} /\ will_send' \in BOOLEAN
  BY DEF Handle, TypeOK
<1> QED
  BY <1>1, <1>2, <1>3

\* What an Update may do to the conv.
ConvStep ==
  m_conv' # Invalid => \/ m_conv' = m_server_ip'
                       \/ UNCHANGED <<m_conv, m_server_ip>>
                       \/ m_transport_use_protocol = "TCP" /\ tcp # Invalid /\ tcp.left

\* What one Update may do to the TCP socket and what it may read from it.
TcpOutcome(r, has_data) ==
  /\ Received(r, has_data)
  /\ r.part \in Part
  /\ r.sock = Invalid <=> tcp' = Invalid
  /\ tcp = Invalid => r.kind = "NONE" /\ r.part = m_un_receive_queue
  /\ tcp' \in MaybeTcp
  /\ tcp' # Invalid => tcp # Invalid /\ Alike(tcp', tcp)
  /\ m_un_send_queue' \in Seq(Item) /\ half_sent' \in BOOLEAN

LEMMA UpdateTcpOutcome ==
  ASSUME TypeOK, NEW queue \in Seq(Item), NEW has_data, UpdateTcp(queue, has_data)
  PROVE  \E r : TcpOutcome(r, has_data)
<1>1. tcp \in MaybeTcp /\ m_un_receive_queue \in Part /\ half_sent \in BOOLEAN
  BY DEF TypeOK, MaybeTcp
<1>2. CASE \E s \in SendTcp(tcp, queue) : \E r \in ReceiveTcp(s.sock, m_un_receive_queue) :
             /\ tcp' = r.sock
             /\ m_un_send_queue' = s.queue /\ half_sent' = s.half
             /\ Received(r, has_data)
  <2>1. PICK s \in SendTcp(tcp, queue) : \E r \in ReceiveTcp(s.sock, m_un_receive_queue) :
             /\ tcp' = r.sock
             /\ m_un_send_queue' = s.queue /\ half_sent' = s.half
             /\ Received(r, has_data)
    BY <1>2
  <2>2. PICK r \in ReceiveTcp(s.sock, m_un_receive_queue) :
             /\ tcp' = r.sock
             /\ m_un_send_queue' = s.queue /\ half_sent' = s.half
             /\ Received(r, has_data)
    BY <2>1
  <2>3. /\ s.sock \in MaybeTcp /\ (s.sock = Invalid <=> tcp = Invalid)
        /\ tcp # Invalid => Alike(s.sock, tcp)
        /\ s.queue \in Seq(Item) /\ s.half \in BOOLEAN
    BY <1>1, SendTcpFacts
  <2>4. /\ r.sock \in MaybeTcp /\ r.part \in Part
        /\ r.sock # Invalid => s.sock # Invalid /\ Alike(r.sock, s.sock)
        /\ s.sock = Invalid => r = Nothing(Invalid, m_un_receive_queue)
    BY <1>1, <2>3, ReceiveTcpFacts
  <2>5. tcp = Invalid => r.kind = "NONE" /\ r.part = m_un_receive_queue
    BY <2>3, <2>4 DEF Nothing
  <2> QED
    BY <2>2, <2>3, <2>4, <2>5 DEF TcpOutcome, Alike
<1>3. CASE \E r \in ReceiveTcp(tcp, m_un_receive_queue), flushed \in Flushed(queue) :
             \E s \in SendTcp(r.sock, flushed) :
               /\ tcp' = s.sock
               /\ m_un_send_queue' = s.queue /\ half_sent' = s.half
               /\ Received(r, has_data)
  <2>1. PICK r \in ReceiveTcp(tcp, m_un_receive_queue), flushed \in Flushed(queue) :
             \E s \in SendTcp(r.sock, flushed) :
               /\ tcp' = s.sock
               /\ m_un_send_queue' = s.queue /\ half_sent' = s.half
               /\ Received(r, has_data)
    BY <1>3
  <2>2. PICK s \in SendTcp(r.sock, flushed) :
               /\ tcp' = s.sock
               /\ m_un_send_queue' = s.queue /\ half_sent' = s.half
               /\ Received(r, has_data)
    BY <2>1
  <2>3. /\ r.sock \in MaybeTcp /\ r.part \in Part
        /\ r.sock # Invalid => tcp # Invalid /\ Alike(r.sock, tcp)
        /\ tcp = Invalid => r = Nothing(Invalid, m_un_receive_queue)
    BY <1>1, ReceiveTcpFacts
  <2>4. flushed \in Seq(Item)
    BY DEF Flushed, Item
  <2>5. /\ s.sock \in MaybeTcp /\ (s.sock = Invalid <=> r.sock = Invalid)
        /\ r.sock # Invalid => Alike(s.sock, r.sock)
        /\ s.queue \in Seq(Item) /\ s.half \in BOOLEAN
    BY <1>1, <2>3, <2>4, SendTcpFacts
  <2>6. tcp = Invalid => r.kind = "NONE" /\ r.part = m_un_receive_queue
    BY <2>3 DEF Nothing
  <2> QED
    BY <2>2, <2>3, <2>5, <2>6 DEF TcpOutcome, Alike
<1> QED
  BY <1>2, <1>3 DEF UpdateTcp

LEMMA UpdateTcpStep ==
  ASSUME CInv, NEW queue \in Seq(Item), NEW has_data \in BOOLEAN,
         m_transport_use_protocol = "TCP", UpdateTcp(queue, has_data),
         UNCHANGED <<m_transport_use_protocol, m_server_ip, use>>
  PROVE  CInv' /\ ConvStep
<1>1. TypeOK /\ SocketsOfTarget /\ ClosedHasNoTcp /\ SuccessHasSocket
  BY DEF CInv
<1>2. PICK r : TcpOutcome(r, has_data)
  BY <1>1, UpdateTcpOutcome
<1>3. UNCHANGED udp
  BY DEF UpdateTcp
<1> DEFINE from == IF tcp = Invalid THEN Invalid ELSE tcp.server
<1>4. from \in Server \cup {Invalid} /\ Handle(r.kind, from, has_data)
  <2>1. tcp # Invalid => tcp.server \in Server
    BY <1>1 DEF TypeOK, TcpSocket
  <2> QED
    BY <1>2, <2>1 DEF TcpOutcome, Received
<1>a. from = Invalid \/ from = m_server_ip \/ (tcp # Invalid /\ tcp.left)
  BY <1>1 DEF SocketsOfTarget, Outlived
<1> HIDE DEF from
<1>5. /\ m_conv' \in Server \cup {Invalid} /\ m_conv' \in {m_conv, from}
      /\ m_kcp_status' \in {"UN_CONNECT", "CONNECT", "EXIT"} /\ will_send' \in BOOLEAN
  BY <1>1, <1>4, HandleFacts
<1>6. /\ m_un_receive_queue' \in Part
      /\ StatusAfter(r.kind # "NONE" \/ r.part # m_un_receive_queue, r.sock = Invalid /\ tcp # Invalid)
  BY <1>2 DEF TcpOutcome, Received
<1>7. m_connect_status \in {"UNCONNECT", "CONNECT_ING", "CONNECT_SUCCESS"}
  BY <1>1 DEF TypeOK
<1>8. /\ m_connect_status' \in {"UNCONNECT", "CONNECT_ING", "CONNECT_SUCCESS"}
      /\ m_connect_status' = "UNCONNECT" => Outlived(tcp')
      /\ m_connect_status' = "CONNECT_SUCCESS" => tcp' # Invalid
  BY <1>1, <1>2, <1>6, <1>7 
     DEF StatusAfter, TcpOutcome, ClosedHasNoTcp, SuccessHasSocket, Outlived, Alike
<1>9. /\ tcp' \in TcpSocket \cup {Invalid}
      /\ Outlived(tcp') \/ tcp'.server = m_server_ip
      /\ m_un_send_queue' \in Seq(Item) /\ half_sent' \in BOOLEAN
  BY <1>1, <1>2 DEF TcpOutcome, SocketsOfTarget, MaybeTcp, Outlived, Alike
<1>10. TypeOK'
  BY <1>1, <1>3, <1>5, <1>6, <1>8, <1>9 DEF TypeOK
<1>11. /\ TcpOnlyInUse' /\ ClosedHasNoTcp' /\ SuccessHasSocket' /\ SocketsOfTarget'
  BY <1>8, <1>9 DEF TcpOnlyInUse, ClosedHasNoTcp, SuccessHasSocket, SocketsOfTarget
<1>12. ConvStep
  BY <1>5, <1>a DEF ConvStep
<1> QED
  BY <1>10, <1>11, <1>12 DEF CInv

LEMMA SendUdpFacts ==
  ASSUME NEW sock \in MaybeUdp, NEW queue \in Seq(Item), NEW s \in SendUdp(sock, queue)
  PROVE  /\ s.sock \in MaybeUdp
         /\ s.sock = Invalid <=> sock = Invalid
         /\ sock # Invalid => s.sock.server = sock.server
         /\ s.queue \in Seq(Item)
<1>1. CASE s = [sock |-> sock, queue |-> queue]
  BY <1>1
<1>2. CASE s # [sock |-> sock, queue |-> queue]
  <2>1. sock # Invalid
    BY <1>2 DEF SendUdp
  <2>2. PICK arrives \in BOOLEAN :
          s = [sock |-> [sock EXCEPT !.asked = @ \/ (arrives /\ queue[Len(queue)] = "ASK")],
               queue |-> << >>]
    BY <1>2 DEF SendUdp
  <2>3. sock \in UdpSocket
    BY <2>1 DEF MaybeUdp
  <2> DEFINE asked == sock.asked \/ (arrives /\ queue[Len(queue)] = "ASK")
             new == [sock EXCEPT !.asked = asked]
  <2>4. asked \in BOOLEAN
    BY Zenon
  <2>5. s.sock = new /\ s.queue = << >>
    BY <2>2
  <2> HIDE DEF asked
  <2>6. new \in UdpSocket /\ new.server = sock.server
    BY <2>3, <2>4 DEF UdpSocket
  <2> HIDE DEF new
  <2>7. << >> \in Seq(Item)
    OBVIOUS
  <2> QED
    BY <2>1, <2>5, <2>6, <2>7, InvalidAssumption DEF MaybeUdp
<1> QED
  BY <1>1, <1>2

LEMMA UpdateUdpStep ==
  ASSUME CInv, NEW queue \in Seq(Item), NEW has_data \in BOOLEAN,
         m_transport_use_protocol = "UDP", UpdateUdp(queue, has_data),
         UNCHANGED <<m_transport_use_protocol, m_server_ip, use>>
  PROVE  CInv' /\ ConvStep
<1>1. TypeOK /\ SocketsOfTarget /\ ClosedHasNoTcp /\ SuccessHasSocket
  BY DEF CInv
<1>2. Outlived(tcp)
  BY DEF CInv, TcpOnlyInUse, Outlived
<1>3. PICK s \in SendUdp(udp, queue) : \E kind \in ReceiveUdp(s.sock) :
        /\ udp' = s.sock
        /\ m_un_send_queue' = s.queue
        /\ StatusAfter(kind # "NONE", FALSE)
        /\ Handle(kind, IF udp = Invalid THEN Invalid ELSE udp.server, has_data)
  BY DEF UpdateUdp
<1>4. PICK kind \in ReceiveUdp(s.sock) :
        /\ udp' = s.sock
        /\ m_un_send_queue' = s.queue
        /\ StatusAfter(kind # "NONE", FALSE)
        /\ Handle(kind, IF udp = Invalid THEN Invalid ELSE udp.server, has_data)
  BY <1>3
<1>5. udp \in MaybeUdp
  BY <1>1 DEF TypeOK, MaybeUdp
<1>6. /\ s.sock \in MaybeUdp /\ (s.sock = Invalid <=> udp = Invalid)
      /\ udp # Invalid => s.sock.server = udp.server
      /\ s.queue \in Seq(Item)
  BY <1>5, SendUdpFacts
<1> DEFINE from == IF udp = Invalid THEN Invalid ELSE udp.server
<1>7. from \in {m_server_ip, Invalid} /\ Handle(kind, from, has_data)
  BY <1>1, <1>4 DEF SocketsOfTarget
<1>a. m_server_ip \in Server
  BY <1>1 DEF TypeOK
<1> HIDE DEF from
<1>8. /\ m_conv' \in Server \cup {Invalid} /\ m_conv' \in {m_conv, from}
      /\ m_kcp_status' \in {"UN_CONNECT", "CONNECT", "EXIT"} /\ will_send' \in BOOLEAN
  BY <1>1, <1>7, <1>a, HandleFacts
<1>9. m_connect_status \in {"UNCONNECT", "CONNECT_ING", "CONNECT_SUCCESS"}
  BY <1>1 DEF TypeOK
<1>10. udp = Invalid => kind = "NONE"
  BY <1>6 DEF ReceiveUdp
<1>11. /\ m_connect_status' \in {"UNCONNECT", "CONNECT_ING", "CONNECT_SUCCESS"}
       /\ m_connect_status' = "CONNECT_SUCCESS" => udp' # Invalid
  BY <1>1, <1>4, <1>6, <1>9, <1>10 DEF StatusAfter, SuccessHasSocket
<1>12. UNCHANGED <<half_sent, m_un_receive_queue, tcp>>
  BY DEF UpdateUdp
<1>13. /\ udp' \in UdpSocket \cup {Invalid}
       /\ udp' # Invalid => udp'.server = m_server_ip
       /\ m_un_send_queue' \in Seq(Item)
  BY <1>1, <1>4, <1>6 DEF SocketsOfTarget, MaybeUdp
<1>14. TypeOK'
  BY <1>1, <1>8, <1>11, <1>12, <1>13 DEF TypeOK
<1>15. TcpOnlyInUse' /\ ClosedHasNoTcp' /\ SuccessHasSocket' /\ SocketsOfTarget'
  <2>1. Outlived(tcp') /\ Outlived(tcp)
    BY <1>2, <1>12
  <2>2. TcpOnlyInUse' /\ ClosedHasNoTcp'
    BY <2>1 DEF TcpOnlyInUse, ClosedHasNoTcp, Outlived
  <2> QED
    BY <2>1, <2>2, <1>11, <1>13 DEF SuccessHasSocket, SocketsOfTarget, Outlived
<1>16. ConvStep
  BY <1>7, <1>8 DEF ConvStep
<1> QED
  BY <1>14, <1>15, <1>16 DEF CInv

LEMMA UpdateStep ==
  ASSUME CInv, NEW queue \in Seq(Item), NEW has_data \in BOOLEAN, Update(queue, has_data)
  PROVE  CInv' /\ ConvStep
<1>1. UNCHANGED <<m_transport_use_protocol, m_server_ip, use>>
  BY DEF Update
<1>2. CASE m_transport_use_protocol = "TCP" /\ UpdateTcp(queue, has_data)
  BY <1>1, <1>2, UpdateTcpStep
<1>3. CASE m_transport_use_protocol = "UDP" /\ UpdateUdp(queue, has_data)
  BY <1>1, <1>3, UpdateUdpStep
<1>4. CASE /\ m_un_send_queue' = queue /\ will_send' = has_data
           /\ UNCHANGED <<m_connect_status, m_kcp_status, m_conv, half_sent,
                          m_un_receive_queue, udp, tcp>>
  <2>1. TypeOK
    BY DEF CInv
  <2>2. TypeOK'
    BY <1>1, <1>4, <2>1 DEF TypeOK
  <2> QED
    BY <1>1, <1>4, <2>2 DEF CInv, TcpOnlyInUse, ClosedHasNoTcp, SocketsOfTarget,
                            SuccessHasSocket, ConvStep
<1> QED
  BY <1>2, <1>3, <1>4 DEF Update

-----------------------------------------------------------------------------
(* The calls of the application, the environment, and the theorems *)

LEMMA AskedFacts ==
  ASSUME NEW queue \in Seq(Item) PROVE Asked(queue) \in Seq(Item)
BY DEF Asked, Item

LEMMA SendOneCodeStep ==
  ASSUME CInv, NEW accepted \in BOOLEAN, SendOneCode(accepted) PROVE CInv' /\ ConvStep
<1>1. TypeOK
  BY DEF CInv
<1>2. Asked(m_un_send_queue) \in Seq(Item)
  BY <1>1, AskedFacts DEF TypeOK
<1>3. CASE Update(Asked(m_un_send_queue), TRUE)
  BY <1>2, <1>3, UpdateStep
<1>4. CASE /\ m_kcp_status' = "EXIT"
           /\ m_un_send_queue' = Asked(m_un_send_queue)
           /\ UNCHANGED <<m_connect_status, m_transport_use_protocol, m_conv,
                          m_server_ip, use, will_send, half_sent,
                          m_un_receive_queue, udp, tcp>>
  <2>1. TypeOK'
    BY <1>1, <1>2, <1>4 DEF TypeOK
  <2> QED
    BY <1>4, <2>1 DEF CInv, TcpOnlyInUse, ClosedHasNoTcp, SocketsOfTarget,
                      SuccessHasSocket, ConvStep
<1> QED
  BY <1>3, <1>4 DEF SendOneCode

LEMMA LinksStep ==
  ASSUME CInv, NEW from, NEW to \in {"OPEN", "EOF"}, Links(from, to) PROVE CInv'
<1>1. TypeOK
  BY DEF CInv
<1>2. tcp \in TcpSocket /\ tcp' = [tcp EXCEPT !.link = to]
  BY <1>1 DEF Links, TypeOK
<1>3. tcp' \in TcpSocket /\ Alike(tcp', tcp)
  BY <1>2 DEF TcpSocket, Alike
<1>4. tcp # Invalid /\ tcp' # Invalid
  BY <1>2, <1>3, InvalidAssumption
<1>5. UNCHANGED <<status, m_conv, m_server_ip, use, will_send, queues, udp>>
  BY DEF Links
<1>6. TypeOK'
  BY <1>1, <1>3, <1>5 DEF TypeOK, status, queues
<1> QED
  BY <1>3, <1>4, <1>5, <1>6 DEF CInv, TcpOnlyInUse, ClosedHasNoTcp, SocketsOfTarget,
                                SuccessHasSocket, Outlived, Alike, status, queues

LEMMA CInitially ==
  ASSUME Init PROVE CInv
<1>1. << >> \in Seq(Item)
  OBVIOUS
<1>2. TypeOK
  BY <1>1 DEF Init, TypeOK, Part
<1> QED
  BY <1>2 DEF Init, CInv, TcpOnlyInUse, ClosedHasNoTcp, SocketsOfTarget,
              SuccessHasSocket, Outlived

LEMMA CStep ==
  ASSUME CInv, [Next]_vars PROVE CInv'
<1>1. CASE ConnectLogicServer
  BY <1>1, ReconnectStep, FirstConnectStep DEF ConnectLogicServer, Rest
<1>2. CASE ReconnectLogicServer
  BY <1>2, ReconnectStep DEF ReconnectLogicServer, Rest
<1>3. CASE CloseLogicConnect
  BY <1>3, CloseStep
<1>4. CASE \E s \in Server : ChangeAddress(s)
  BY <1>4, ChangeAddressStep
<1>5. CASE \E pair \in Protocols : SetUse(pair)
  <2>1. /\ use' \in Protocols
        /\ UNCHANGED <<status, m_conv, m_server_ip, will_send, queues, udp, tcp>>
    BY <1>5 DEF SetUse
  <2> QED
    BY <2>1, NothingConnects
<1>6. CASE \E accepted \in BOOLEAN : SendOneCode(accepted)
  BY <1>6, SendOneCodeStep
<1>7. CASE ReceiveOneCode
  <2>1. m_un_send_queue \in Seq(Item) /\ will_send \in BOOLEAN
    BY DEF CInv, TypeOK
  <2> QED
    BY <1>7, <2>1, UpdateStep DEF ReceiveOneCode
<1>8. CASE LateConnect \/ ServerCloses
  BY <1>8, LinksStep DEF LateConnect, ServerCloses
<1>9. CASE UNCHANGED vars
  <2>1. use' \in Protocols
    BY <1>9 DEF CInv, TypeOK, vars
  <2> QED
    BY <1>9, <2>1, NothingConnects DEF vars
<1> QED
  BY <1>1, <1>2, <1>3, <1>4, <1>5, <1>6, <1>7, <1>8, <1>9 DEF Next

\* The session invariant: the session is well formed whatever is called, in
\* whatever order.
THEOREM SessionInvariant == Spec => []CInv
<1>1. Init => CInv
  BY CInitially
<1>2. CInv /\ [Next]_vars => CInv'
  BY CStep
<1> QED
  BY <1>1, <1>2, PTL DEF Spec

\* The type invariant of the session: each field of ConnectionManager and of
\* its sockets stays in its range, whatever is called in whatever order.
THEOREM ConnectionTypeCorrect == Spec => []TypeOK
<1>1. CInv => TypeOK
  BY DEF CInv
<1> QED
  BY <1>1, SessionInvariant, PTL

\* A change of address gives the conv up, and the next one is assigned by the
\* server last given to ChangeAddress (network_connection_manager.cpp:74-85,
\* 391-428), unless it comes over a TCP socket that ChangeAddress left open:
\* over UDP, or over a socket connected since, never by the old server.
THEOREM ConvIsOfTarget == Spec => SessionOfTarget
<1>1. ASSUME CInv, [Next]_vars PROVE ConvStep
  <2>1. CASE \E accepted \in BOOLEAN : SendOneCode(accepted)
    BY <1>1, <2>1, SendOneCodeStep
  <2>2. CASE ReceiveOneCode
    <3>1. m_un_send_queue \in Seq(Item) /\ will_send \in BOOLEAN
      BY <1>1 DEF CInv, TypeOK
    <3> QED
      BY <1>1, <2>2, <3>1, UpdateStep DEF ReceiveOneCode
  <2>3. CASE \E s \in Server : ChangeAddress(s)
    BY <2>3 DEF ChangeAddress, ConvStep
  <2>4. CASE UNCHANGED <<m_conv, m_server_ip>>
    BY <2>4 DEF ConvStep
  <2>5. CASE ConnectLogicServer \/ ReconnectLogicServer \/ CloseLogicConnect
    BY <2>4, <2>5 DEF ConnectLogicServer, ReconnectLogicServer, CloseLogicConnect
  <2>6. CASE (\E pair \in Protocols : SetUse(pair)) \/ LateConnect \/ ServerCloses
    BY <2>4, <2>6 DEF SetUse, LateConnect, ServerCloses, Links
  <2> QED
    BY <1>1, <2>1, <2>2, <2>3, <2>4, <2>5, <2>6 DEF Next, vars
<1>2. Spec => [][ConvStep]_vars
  BY <1>1, SessionInvariant, PTL DEF Spec
<1> QED
  BY <1>2 DEF SessionOfTarget, ConvStep

\* No TCP socket stays open behind a session that uses UDP or nothing, unless
\* ChangeAddress left it open.
THEOREM NoIdleTcp == Spec => []TcpOnlyInUse
<1>1. CInv => TcpOnlyInUse
  BY DEF CInv
<1> QED
  BY <1>1, SessionInvariant, PTL

\* A session that reports success has the socket it reports on.
THEOREM SuccessIsReal == Spec => []SuccessHasSocket
<1>1. CInv => SuccessHasSocket
  BY DEF CInv
<1> QED
  BY <1>1, SessionInvariant, PTL

-----------------------------------------------------------------------------
(* Packets and the key on a TCP stream *)

\* FramesAligned of a socket and these queues.
Aligned(sock, half, part) ==
  Own(sock) => /\ sock.rx_inside <=> part = "PART"
               /\ sock.tx_inside <=> half

\* KeyFirst is not inductive: the key has to be at the head of the queue as
\* long as nothing is sent, and nowhere else.
KeyLeads(sock, queue, half) ==
  Own(sock) =>
    /\ sock.begun # "MIXED"
    /\ sock.begun = "NOTHING" => ~half /\ queue # << >> /\ queue[1] = "KEY"
    /\ sock.begun = "KEY" /\ ~half /\ queue # << >> => queue[1] # "KEY"
    /\ \A i \in 2 .. Len(queue) : queue[i] # "KEY"

\* The inductive invariant of the streams, on top of CInv.
StreamInv == /\ Aligned(tcp, half_sent, m_un_receive_queue)
             /\ KeyLeads(tcp, m_un_send_queue, half_sent)

\* A socket made by TcpConnection::Connect has carried nothing; one that it
\* kept is marked, when TCP alone is in use or a change of address left it.
LEMMA ConnectedIsFresh ==
  ASSUME TypeOK, NEW sock \in MaybeTcp, sock # Invalid => ~use[1] \/ sock.left,
         NEW new \in Connected(sock)
  PROVE  \/ ~Own(new)
         \/ ~new.rx_inside /\ ~new.tx_inside /\ new.begun = "NOTHING"
<1>1. CASE sock = Invalid \/ sock.error
  <2>1. new \in {NewTcpSocket("OPEN", FALSE), NewTcpSocket("PENDING", TRUE),
                 NewTcpSocket("REFUSED", TRUE)}
    BY <1>1 DEF Connected
  <2>2. \A link, error : /\ ~NewTcpSocket(link, error).rx_inside
                         /\ ~NewTcpSocket(link, error).tx_inside
                         /\ NewTcpSocket(link, error).begun = "NOTHING"
    BY DEF NewTcpSocket
  <2> QED
    BY <2>1, <2>2
<1>2. CASE ~(sock = Invalid \/ sock.error)
  <2>1. sock \in TcpSocket /\ (~use[1] \/ sock.left)
    BY <1>2 DEF MaybeTcp
  <2> DEFINE again == sock.kept \/ ~use[1]
             same == [sock EXCEPT !.kept = again]
  <2>2. \/ new = same
        \/ new = [same EXCEPT !.error = TRUE]
        \/ \E b \in BOOLEAN : new = [same EXCEPT !.rx_inside = b]
    BY <1>2 DEF Connected
  <2>3. again \in BOOLEAN /\ (again \/ sock.left)
    BY <2>1, Zenon
  <2> HIDE DEF again
  <2>4. same \in TcpSocket /\ (same.kept \/ same.left)
    BY <2>1, <2>3 DEF TcpSocket
  <2> HIDE DEF same
  <2>5. new.kept \/ new.left
    BY <2>2, <2>4 DEF TcpSocket
  <2> QED
    BY <2>5 DEF Own
<1> QED
  BY <1>1, <1>2

\* Starting on TCP: empty queues but for the key.
LEMMA StartTcpStream ==
  ASSUME TypeOK, NEW sock \in MaybeTcp, sock # Invalid => ~use[1] \/ sock.left,
         StartTcp(sock)
  PROVE  StreamInv'
<1>1. \/ ~Own(tcp')
      \/ ~tcp'.rx_inside /\ ~tcp'.tx_inside /\ tcp'.begun = "NOTHING"
  BY ConnectedIsFresh DEF StartTcp
<1>2. /\ m_un_send_queue' = <<"KEY">> /\ half_sent' = FALSE /\ m_un_receive_queue' = "EMPTY"
  BY DEF StartTcp, QueuesHoldOnly
<1> QED
  BY <1>1, <1>2 DEF StreamInv, Aligned, KeyLeads

LEMMA NoSocketNoStream ==
  ASSUME Outlived(tcp') PROVE StreamInv'
BY DEF StreamInv, Aligned, KeyLeads, Outlived, Own

\* What SendTcpData sends keeps the frames of the writer, and sends the key
\* first and once.
LEMMA SendTcpStream ==
  ASSUME half_sent \in BOOLEAN, NEW sock \in MaybeTcp, NEW queue \in Seq(Item),
         NEW part, Aligned(sock, half_sent, part), KeyLeads(sock, queue, half_sent),
         NEW s \in SendTcp(sock, queue)
  PROVE  Aligned(s.sock, s.half, part) /\ KeyLeads(s.sock, s.queue, s.half)
<1>1. CASE s = [sock |-> sock, queue |-> queue, half |-> half_sent]
  BY <1>1
<1>2. CASE s # [sock |-> sock, queue |-> queue, half |-> half_sent]
  <2>1. sock \in TcpSocket /\ sock # Invalid
    BY <1>2 DEF SendTcp, MaybeTcp
  <2>2. PICK k \in 0 .. Len(queue), h \in BOOLEAN :
          /\ s = [sock |-> Wrote(sock, queue, k, h),
                  queue |-> SubSeq(queue, k + 1, Len(queue)), half |-> h]
          /\ IF h THEN k < Len(queue) ELSE k > 0
    BY <1>2 DEF SendTcp
  <2> DEFINE first == IF half_sent THEN 2 ELSE 1
             last  == IF h THEN k + 1 ELSE k
             items == SubSeq(queue, first, last)
             rest  == SubSeq(queue, k + 1, Len(queue))
             begun == Begun(sock, items)
             asked == sock.asked \/ /\ (sock.tx_inside = half_sent) /\ sock.link = "OPEN"
                                    /\ \E i \in 1 .. k : queue[i] = "ASK"
             inside == ((sock.tx_inside = half_sent) <=> h)
  <2>3. Wrote(sock, queue, k, h) = [sock EXCEPT !.tx_inside = inside, !.begun = begun, !.asked = asked]
    BY <2>1 DEF Wrote
  <2>4. /\ s.sock.kept = sock.kept /\ s.sock.left = sock.left
        /\ s.sock.rx_inside = sock.rx_inside
        /\ s.sock.tx_inside = inside /\ s.sock.begun = begun
        /\ s.queue = rest /\ s.half = h
    <3> HIDE DEF inside, begun, asked
    <3> QED
      BY <2>1, <2>2, <2>3 DEF TcpSocket
  <2>5. CASE ~Own(sock)
    BY <2>1, <2>4, <2>5 DEF Aligned, KeyLeads, Own
  <2>6. CASE Own(sock)
    <3>1. sock.rx_inside <=> part = "PART"
      BY <2>1, <2>6 DEF Aligned
    <3>2. sock.tx_inside <=> half_sent
      BY <2>1, <2>6 DEF Aligned
    <3>3. sock.tx_inside \in BOOLEAN
      BY <2>1 DEF TcpSocket
    <3>4. inside = h
      BY <3>2, <3>3
    <3>5. Aligned(s.sock, s.half, part)
      BY <2>4, <3>1, <3>4 DEF Aligned
    <3>6. /\ sock.begun # "MIXED"
          /\ sock.begun = "NOTHING" => ~half_sent /\ queue # << >> /\ queue[1] = "KEY"
          /\ sock.begun = "KEY" /\ ~half_sent /\ queue # << >> => queue[1] # "KEY"
          /\ \A i \in 2 .. Len(queue) : queue[i] # "KEY"
      BY <2>1, <2>6 DEF KeyLeads
    <3>7. last \in Nat /\ last <= Len(queue) /\ last >= 1 /\ first \in {1, 2}
      BY <2>2
    <3>8. /\ first > last => items = << >>
          /\ first <= last => items # << >> /\ Head(items) = queue[first]
      BY <3>7
    <3>9. /\ Len(rest) = Len(queue) - k
          /\ \A i \in 1 .. Len(rest) : rest[i] = queue[k + i]
      OBVIOUS
    <3>10. \A i \in 2 .. Len(rest) : rest[i] # "KEY"
      BY <3>6, <3>9
    <3>11. begun = "KEY"
      <4>1. CASE half_sent
        <5>1. sock.begun = "KEY"
          BY <2>1, <3>6, <4>1 DEF TcpSocket
        <5>2. items # << >> => Head(items) # "KEY"
          BY <3>6, <3>7, <3>8, <4>1
        <5> QED
          BY <5>1, <5>2 DEF Begun
      <4>2. CASE ~half_sent
        <5>1. items # << >> /\ Head(items) = queue[1] /\ queue # << >>
          BY <3>7, <3>8, <4>2
        <5>2. sock.begun \in {"NOTHING", "KEY"}
          BY <2>1, <3>6 DEF TcpSocket
        <5> HIDE DEF items
        <5> QED
          BY <3>6, <4>2, <5>1, <5>2 DEF Begun
      <4> QED
        BY <4>1, <4>2
    <3>12. ~h /\ rest # << >> => rest[1] # "KEY"
      BY <2>2, <3>6, <3>9
    <3> QED
      BY <2>4, <3>5, <3>10, <3>11, <3>12 DEF KeyLeads
  <2> QED
    BY <2>5, <2>6
<1> QED
  BY <1>1, <1>2

\* What is read from a socket keeps the frames of the reader.
LEMMA ReceiveTcpStream ==
  ASSUME NEW sock \in MaybeTcp, NEW part \in Part, NEW half, NEW queue,
         Aligned(sock, half, part), KeyLeads(sock, queue, half),
         NEW r \in ReceiveTcp(sock, part)
  PROVE  Aligned(r.sock, half, r.part) /\ KeyLeads(r.sock, queue, half)
<1>1. CASE r.sock = Invalid
  BY <1>1 DEF Aligned, KeyLeads, Own
<1>2. CASE r = Nothing(sock, part)
  BY <1>2 DEF Nothing
<1>3. CASE r.sock # Invalid /\ r # Nothing(sock, part)
  <2>1. sock \in TcpSocket /\ sock # Invalid
    BY <1>3 DEF ReceiveTcp, MaybeTcp
  <2>2. r \in Reads(sock, part)
    <3>1. CASE sock.link \in {"PENDING", "REFUSED"}
      BY <1>3, <2>1, <3>1 DEF ReceiveTcp, Nothing
    <3>2. CASE sock.link = "OPEN"
      BY <2>1, <3>2 DEF ReceiveTcp
    <3>3. CASE sock.link \notin {"PENDING", "REFUSED", "OPEN"}
      <4>1. PICK read \in Reads(sock, part) : r = [read EXCEPT !.sock = Invalid]
        BY <2>1, <3>3 DEF ReceiveTcp
      <4>2. \E x, p, k : read = [sock |-> x, part |-> p, kind |-> k]
        BY <4>1 DEF Reads, Nothing
      <4> QED
        BY <1>3, <4>1, <4>2
    <3> QED
      BY <3>1, <3>2, <3>3
  <2>3. \/ /\ part = "EMPTY" /\ ~sock.rx_inside
           /\ r.sock = [sock EXCEPT !.rx_inside = TRUE] /\ r.part = "PART"
        \/ /\ r.sock = [sock EXCEPT !.rx_inside = FALSE] /\ r.part = "EMPTY"
        \/ /\ part = "EMPTY" /\ sock.rx_inside
           /\ r.sock = [sock EXCEPT !.rx_inside = FALSE] /\ r.part = "GARBAGE"
    <3>1. CASE \E k \in Kinds(sock) :
                 r = [sock |-> [sock EXCEPT !.rx_inside = FALSE], part |-> "EMPTY", kind |-> k]
      BY <3>1
    <3>2. CASE /\ part = "EMPTY" /\ ~sock.rx_inside
               /\ r = Nothing([sock EXCEPT !.rx_inside = TRUE], "PART")
      BY <3>2 DEF Nothing
    <3>3. CASE /\ part = "EMPTY" /\ sock.rx_inside
               /\ r = Nothing([sock EXCEPT !.rx_inside = FALSE], "GARBAGE")
      BY <3>3 DEF Nothing
    <3> QED
      BY <1>3, <2>2, <3>1, <3>2, <3>3 DEF Reads
  <2>4. \E b \in BOOLEAN : r.sock = [sock EXCEPT !.rx_inside = b] /\ (b <=> r.part = "PART")
    BY <2>3
  <2>5. PICK b \in BOOLEAN : r.sock = [sock EXCEPT !.rx_inside = b] /\ (b <=> r.part = "PART")
    BY <2>4
  <2>6. /\ r.sock.rx_inside = b /\ r.sock.tx_inside = sock.tx_inside
        /\ r.sock.kept = sock.kept /\ r.sock.left = sock.left
        /\ r.sock.begun = sock.begun
    BY <2>1, <2>5 DEF TcpSocket
  <2> QED
    BY <2>1, <2>5, <2>6 DEF Aligned, KeyLeads, Own
<1> QED
  BY <1>1, <1>2, <1>3

\* What Update and SendOneCode add to the queue is no key.
LEMMA AppendKeepsKey ==
  ASSUME NEW sock, NEW half, NEW queue \in Seq(Item), NEW item \in {"ASK", "SEG"},
         KeyLeads(sock, queue, half)
  PROVE  KeyLeads(sock, Append(queue, item), half)
<1> DEFINE longer == Append(queue, item)
<1>1. /\ Len(longer) = Len(queue) + 1
      /\ \A i \in 1 .. Len(queue) : longer[i] = queue[i]
      /\ longer[Len(queue) + 1] = item
  OBVIOUS
<1>2. /\ longer # << >>
      /\ queue # << >> => longer[1] = queue[1]
      /\ queue = << >> => longer[1] = item
  BY <1>1
<1>3. (\A i \in 2 .. Len(queue) : queue[i] # "KEY")
        => \A i \in 2 .. Len(longer) : longer[i] # "KEY"
  BY <1>1
<1> HIDE DEF longer
<1> QED
  BY <1>2, <1>3 DEF KeyLeads, longer

LEMMA UpdateTcpStream ==
  ASSUME TypeOK, NEW queue \in Seq(Item), NEW has_data, UpdateTcp(queue, has_data),
         Aligned(tcp, half_sent, m_un_receive_queue), KeyLeads(tcp, queue, half_sent)
  PROVE  StreamInv'
<1>1. tcp \in MaybeTcp /\ m_un_receive_queue \in Part /\ half_sent \in BOOLEAN
  BY DEF TypeOK, MaybeTcp
<1>2. CASE \E s \in SendTcp(tcp, queue) : \E r \in ReceiveTcp(s.sock, m_un_receive_queue) :
             /\ tcp' = r.sock
             /\ m_un_send_queue' = s.queue /\ half_sent' = s.half
             /\ Received(r, has_data)
  <2>1. PICK s \in SendTcp(tcp, queue) : \E r \in ReceiveTcp(s.sock, m_un_receive_queue) :
             /\ tcp' = r.sock
             /\ m_un_send_queue' = s.queue /\ half_sent' = s.half
             /\ Received(r, has_data)
    BY <1>2
  <2>2. PICK r \in ReceiveTcp(s.sock, m_un_receive_queue) :
             /\ tcp' = r.sock
             /\ m_un_send_queue' = s.queue /\ half_sent' = s.half
             /\ Received(r, has_data)
    BY <2>1
  <2>3. s.sock \in MaybeTcp
    BY <1>1, SendTcpFacts
  <2>4. Aligned(s.sock, s.half, m_un_receive_queue) /\ KeyLeads(s.sock, s.queue, s.half)
    BY <1>1, SendTcpStream
  <2>5. Aligned(r.sock, s.half, r.part) /\ KeyLeads(r.sock, s.queue, s.half)
    BY <1>1, <2>3, <2>4, ReceiveTcpStream
  <2> QED
    BY <2>2, <2>5 DEF Received, StreamInv
<1>3. CASE \E r \in ReceiveTcp(tcp, m_un_receive_queue), flushed \in Flushed(queue) :
             \E s \in SendTcp(r.sock, flushed) :
               /\ tcp' = s.sock
               /\ m_un_send_queue' = s.queue /\ half_sent' = s.half
               /\ Received(r, has_data)
  <2>1. PICK r \in ReceiveTcp(tcp, m_un_receive_queue), flushed \in Flushed(queue) :
             \E s \in SendTcp(r.sock, flushed) :
               /\ tcp' = s.sock
               /\ m_un_send_queue' = s.queue /\ half_sent' = s.half
               /\ Received(r, has_data)
    BY <1>3
  <2>2. PICK s \in SendTcp(r.sock, flushed) :
               /\ tcp' = s.sock
               /\ m_un_send_queue' = s.queue /\ half_sent' = s.half
               /\ Received(r, has_data)
    BY <2>1
  <2>3. r.sock \in MaybeTcp
    BY <1>1, ReceiveTcpFacts
  <2>4. flushed \in Seq(Item) /\ KeyLeads(tcp, flushed, half_sent)
    <3>1. flushed = queue \/ flushed = Append(queue, "SEG")
      BY DEF Flushed
    <3>2. Append(queue, "SEG") \in Seq(Item)
      BY DEF Item
    <3>3. KeyLeads(tcp, Append(queue, "SEG"), half_sent)
      BY AppendKeepsKey
    <3> QED
      BY <3>1, <3>2, <3>3
  <2>5. Aligned(r.sock, half_sent, r.part) /\ KeyLeads(r.sock, flushed, half_sent)
    BY <1>1, <2>4, ReceiveTcpStream
  <2>6. Aligned(s.sock, s.half, r.part) /\ KeyLeads(s.sock, s.queue, s.half)
    BY <1>1, <2>3, <2>4, <2>5, SendTcpStream
  <2> QED
    BY <2>2, <2>6 DEF Received, StreamInv
<1> QED
  BY <1>2, <1>3 DEF UpdateTcp

LEMMA UpdateStream ==
  ASSUME CInv, NEW queue \in Seq(Item), NEW has_data \in BOOLEAN, Update(queue, has_data),
         Aligned(tcp, half_sent, m_un_receive_queue), KeyLeads(tcp, queue, half_sent)
  PROVE  StreamInv'
<1>1. TypeOK /\ TcpOnlyInUse
  BY DEF CInv
<1>2. CASE UpdateTcp(queue, has_data)
  BY <1>1, <1>2, UpdateTcpStream
<1>3. CASE m_transport_use_protocol = "UDP" /\ UpdateUdp(queue, has_data)
  <2>1. Outlived(tcp')
    BY <1>1, <1>3 DEF UpdateUdp, TcpOnlyInUse, Outlived
  <2> QED
    BY <2>1, NoSocketNoStream
<1>4. CASE /\ m_un_send_queue' = queue
           /\ UNCHANGED <<half_sent, m_un_receive_queue, tcp>>
  BY <1>4 DEF StreamInv
<1> QED
  BY <1>2, <1>3, <1>4 DEF Update

LEMMA FirstConnectStream ==
  ASSUME CInv, StreamInv, m_connect_status = "UNCONNECT", FirstConnect
  PROVE  StreamInv'
<1>1. TypeOK /\ Outlived(tcp)
  BY DEF CInv, ClosedHasNoTcp
<1>2. CASE tcp' = tcp
  BY <1>1, <1>2, NoSocketNoStream
<1>3. CASE StartTcp(Invalid)
  BY <1>1, <1>3, StartTcpStream DEF MaybeTcp
<1> QED
  BY <1>2, <1>3 DEF FirstConnect

\* A socket is kept only where TCP alone is in use, or if it outlived a change
\* of address.
LEMMA ReconnectStream ==
  ASSUME CInv, StreamInv, Reconnect PROVE StreamInv'
<1>1. TypeOK /\ TcpOnlyInUse /\ tcp \in MaybeTcp
  BY DEF CInv, TypeOK, MaybeTcp
<1>2. CASE tcp' = Invalid
  BY <1>2, NoSocketNoStream DEF Outlived
<1>3. CASE StartTcp(Invalid)
  BY <1>1, <1>3, StartTcpStream DEF MaybeTcp
<1>4. CASE m_transport_use_protocol # "TCP" /\ StartTcp(tcp)
  <2>1. tcp # Invalid => tcp.left
    BY <1>1, <1>4 DEF TcpOnlyInUse
  <2> QED
    BY <1>1, <1>4, <2>1, StartTcpStream
<1>5. CASE m_transport_use_protocol # "TCP" /\ UNCHANGED tcp
  <2>1. Outlived(tcp')
    BY <1>1, <1>5 DEF TcpOnlyInUse, Outlived
  <2> QED
    BY <2>1, NoSocketNoStream
<1>6. CASE m_connect_status = "UNCONNECT" /\ FirstConnect
  BY <1>6, FirstConnectStream
<1>7. CASE use = <<FALSE, TRUE>> /\ StartTcp(tcp)
  BY <1>1, <1>7, StartTcpStream
<1> QED
  BY <1>2, <1>3, <1>4, <1>5, <1>6, <1>7 DEF Reconnect, ReconnectBoth

LEMMA SendOneCodeStream ==
  ASSUME CInv, StreamInv, NEW accepted \in BOOLEAN, SendOneCode(accepted) PROVE StreamInv'
<1>1. m_un_send_queue \in Seq(Item)
  BY DEF CInv, TypeOK
<1> DEFINE queue == Asked(m_un_send_queue)
<1>2. queue \in Seq(Item)
  BY <1>1, AskedFacts
<1>3. Aligned(tcp, half_sent, m_un_receive_queue) /\ KeyLeads(tcp, queue, half_sent)
  BY <1>1, AppendKeepsKey DEF StreamInv, Asked
<1> HIDE DEF queue
<1>4. CASE Update(queue, TRUE)
  BY <1>2, <1>3, <1>4, UpdateStream
<1>5. CASE m_un_send_queue' = queue /\ UNCHANGED <<half_sent, m_un_receive_queue, tcp>>
  BY <1>3, <1>5 DEF StreamInv
<1> QED
  BY <1>4, <1>5 DEF SendOneCode, queue

LEMMA LinksStream ==
  ASSUME CInv, StreamInv, NEW from, NEW to, Links(from, to) PROVE StreamInv'
<1>1. tcp \in TcpSocket /\ tcp # Invalid /\ tcp' = [tcp EXCEPT !.link = to]
  BY DEF CInv, TypeOK, Links
<1>2. /\ tcp'.kept = tcp.kept /\ tcp'.left = tcp.left /\ tcp'.rx_inside = tcp.rx_inside
      /\ tcp'.tx_inside = tcp.tx_inside /\ tcp'.begun = tcp.begun
  BY <1>1 DEF TcpSocket
<1>3. UNCHANGED queues
  BY DEF Links
<1> QED
  BY <1>1, <1>2, <1>3 DEF StreamInv, Aligned, KeyLeads, Own, queues

LEMMA StreamStep ==
  ASSUME CInv, StreamInv, [Next]_vars PROVE StreamInv'
<1>1. CASE ConnectLogicServer \/ ReconnectLogicServer
  BY <1>1, ReconnectStream, FirstConnectStream DEF ConnectLogicServer, ReconnectLogicServer
<1>2. CASE CloseLogicConnect
  <2>1. Outlived(tcp')
    BY <1>2 DEF CInv, TcpOnlyInUse, CloseLogicConnect, Outlived
  <2> QED
    BY <2>1, NoSocketNoStream
<1>3. CASE \E s \in Server : ChangeAddress(s)
  <2>1. CInv'
    BY <1>3, ChangeAddressStep
  <2>2. m_connect_status' = "UNCONNECT"
    BY <1>3 DEF ChangeAddress, StatusIs
  <2>3. Outlived(tcp')
    BY <2>1, <2>2 DEF CInv, ClosedHasNoTcp
  <2> QED
    BY <2>3, NoSocketNoStream
<1>4. CASE UNCHANGED <<tcp, queues>>
  BY <1>4 DEF StreamInv, queues
<1>5. CASE \E accepted \in BOOLEAN : SendOneCode(accepted)
  BY <1>5, SendOneCodeStream
<1>6. CASE ReceiveOneCode
  <2>1. m_un_send_queue \in Seq(Item) /\ will_send \in BOOLEAN
    BY DEF CInv, TypeOK
  <2> QED
    BY <1>6, <2>1, UpdateStream DEF ReceiveOneCode, StreamInv
<1>7. CASE LateConnect \/ ServerCloses
  BY <1>7, LinksStream DEF LateConnect, ServerCloses
<1> QED
  BY <1>1, <1>2, <1>3, <1>4, <1>5, <1>6, <1>7 DEF Next, SetUse, vars

LEMMA StreamInvariant == Spec => []StreamInv
<1>1. Init => StreamInv
  BY DEF Init, StreamInv, Aligned, KeyLeads, Own
<1>2. CInv /\ StreamInv /\ [Next]_vars => StreamInv'
  BY StreamStep
<1>3. Spec => []CInv
  BY SessionInvariant
<1> QED
  BY <1>1, <1>2, <1>3, PTL DEF Spec

\* Reader and writer never lose the frame of a TCP stream: no call clears a
\* queue in the middle of a packet while the connection lives on, unless TCP
\* alone is in use or the address changes (network_connection_manager.cpp:
\* ClearTempData in Connect* and Reconnect*, SendTcpData, ReceiveTcpData).
THEOREM FramesStayAligned == Spec => []FramesAligned
<1>1. StreamInv => FramesAligned
  BY DEF StreamInv, Aligned, FramesAligned
<1> QED
  BY <1>1, StreamInvariant, PTL

\* The server on a TCP connection reads the key first and never again, however
\* the socket cuts what is sent, unless TCP alone is in use or the address
\* changes.
THEOREM KeyComesFirst == Spec => []KeyFirst
<1>1. StreamInv => KeyFirst
  BY DEF StreamInv, KeyLeads, KeyFirst
<1> QED
  BY <1>1, StreamInvariant, PTL
=============================================================================
