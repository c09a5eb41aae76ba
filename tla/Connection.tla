------------------------------ MODULE Connection -----------------------------
(***************************************************************************)
(* The client session of src/network_connection_manager.cpp over the two   *)
(* transports of src/tcp_connection.cpp and src/udp_connection.cpp:        *)
(* connecting, reconnecting, changing transport and server, and the        *)
(* handshake that obtains the conversation number (conv) from the server.  *)
(* One thread calls the manager; the network and the servers are the       *)
(* environment.  The application has called ChangeAddress once, as it must *)
(* before anything that uses m_kcp.                                        *)
(*                                                                         *)
(* The bytes of m_un_send_queue are items: the key, a request for a conv,  *)
(* or a segment of KCP.  Over TCP an item and a packet of the server may   *)
(* be cut in two anywhere, so each has a first and a second part.  KCP     *)
(* itself is the module Kcp; here it only has data to send or not.  One    *)
(* Update handles at most one packet, which adds interleavings and removes *)
(* none.  Malformed packets, the rate-limited m_kcp_buff_full flag and     *)
(* numbers of descriptors (module Descriptors) are left out.                *)
(***************************************************************************)
EXTENDS Integers, Sequences

CONSTANTS
  Server,              \* the addresses the application may change to
  Invalid,             \* no socket; no conv
  Protocols,           \* the pairs <<use UDP, use TCP>> the application sets
  MaxUnSend            \* bound: items in m_un_send_queue when KCP adds one

ASSUME ServerAssumption   == Server # {} /\ Invalid \notin Server
ASSUME ProtocolAssumption == Protocols \subseteq BOOLEAN \X BOOLEAN
ASSUME BoundAssumption    == MaxUnSend \in Nat

VARIABLES
  m_connect_status, m_transport_use_protocol, m_kcp_status,
  m_conv,              \* Invalid, or the server that assigned the number
  m_server_ip,         \* the server to connect to
  use,                 \* <<m_use_udp_inlogic, m_use_tcp_inlogic>>
  will_send,           \* CheckHaveWillSendData
  m_un_send_queue,     \* items for the socket
  half_sent,           \* the first part of the first item has been sent
  m_un_receive_queue,  \* "EMPTY", the first "PART" of a packet, or "GARBAGE"
  udp, tcp             \* the sockets of the two connections

status == <<m_connect_status, m_transport_use_protocol, m_kcp_status>>
queues == <<m_un_send_queue, half_sent, m_un_receive_queue>>
vars   == <<status, m_conv, m_server_ip, use, will_send, queues, udp, tcp>>

\* asked: the server has received a request for a conv on this socket.
UdpSocket == [server : Server, asked : BOOLEAN]

\* link: being connected, open, closed by the server, or refused.
\* error: m_enmConnectionStatus is enmConnectionStatus_Error.
\* rx_inside, tx_inside: the bytes read, and sent, so far end inside a packet.
\* begun: "KEY" while the stream sent is one key and then packets.
\* kept: history, with TCP alone in use Connect was called on the open socket.
\* left: history, ChangeAddress was called while the socket was open.
TcpSocket == [server : Server, link : {"PENDING", "OPEN", "EOF", "REFUSED"},
              error : BOOLEAN, asked : BOOLEAN,
              rx_inside : BOOLEAN, tx_inside : BOOLEAN,
              begun : {"NOTHING", "KEY", "MIXED"}, kept : BOOLEAN,
              left : BOOLEAN]

ASSUME InvalidAssumption == Invalid \notin UdpSocket /\ Invalid \notin TcpSocket

Item == {"KEY", "ASK", "SEG"}              \* what m_un_send_queue holds
Part == {"EMPTY", "PART", "GARBAGE"}       \* what m_un_receive_queue is

NewTcpSocket(link, error) ==
  [server |-> m_server_ip, link |-> link, error |-> error, asked |-> FALSE,
   rx_inside |-> FALSE, tx_inside |-> FALSE, begun |-> "NOTHING",
   kept |-> FALSE, left |-> FALSE]

\* Nothing sets m_use_udp_inlogic before the application does.
Init ==
  /\ m_connect_status = "UNCONNECT"
  /\ m_transport_use_protocol = "UNKNOW"
  /\ m_kcp_status = "CONNECT"
  /\ m_conv = Invalid
  /\ m_server_ip \in Server
  /\ use \in Protocols
  /\ will_send = FALSE
  /\ m_un_send_queue = << >> /\ half_sent = FALSE
  /\ m_un_receive_queue = "EMPTY"
  /\ udp = Invalid /\ tcp = Invalid

\* ClearTempData, followed by a write of these items.
QueuesHoldOnly(items) ==
  /\ m_un_send_queue' = items
  /\ half_sent' = FALSE
  /\ m_un_receive_queue' = "EMPTY"

\* Mutant of StatusIs: the two are swapped.
StatusIsSwapped(connect, transport) ==
  /\ m_connect_status' = transport
  /\ m_transport_use_protocol' = connect

StatusIs(connect, transport) ==
  /\ m_connect_status' = connect
  /\ m_transport_use_protocol' = transport

\* What a server may send: a conv it was asked for, data of a conversation it
\* knows, and the order to exit.
Kinds(sock) ==
  (IF sock.asked THEN {"CONV", "EXIT"} ELSE {})
    \cup (IF m_conv = sock.server THEN {"DATA", "EXIT"} ELSE {})

-----------------------------------------------------------------------------
(* Connecting *)

\* TcpConnection::Connect.  A socket that is neither invalid nor in error is
\* kept: connect() on it does nothing, and if it is readable up to ten bytes
\* are read and thrown away.
Connected(sock) ==
  IF sock = Invalid \/ sock.error
  THEN {NewTcpSocket("OPEN", FALSE), NewTcpSocket("PENDING", TRUE),
        NewTcpSocket("REFUSED", TRUE)}
  ELSE LET same == [sock EXCEPT !.kept = @ \/ ~use[1]]
       IN  {same, [same EXCEPT !.error = TRUE]}
             \cup {[same EXCEPT !.rx_inside = b] :
                     b \in IF Kinds(sock) # {} THEN BOOLEAN ELSE {}}

\* Mutant of StartUdp: an open socket is kept, as TcpConnection::Connect does.
StartUdpKeeps(items) ==
  /\ udp' \in IF udp # Invalid THEN {udp}
              ELSE {Invalid, [server |-> m_server_ip, asked |-> FALSE]}
  /\ QueuesHoldOnly(items)
  /\ StatusIs("CONNECT_ING", "UDP")

\* UDPSession::Connect closes the socket it had, and may fail.
StartUdp(items) ==
  /\ udp' \in {Invalid, [server |-> m_server_ip, asked |-> FALSE]}
  /\ QueuesHoldOnly(items)
  /\ StatusIs("CONNECT_ING", "UDP")

\* Mutant of StartTcp: no key, as in ReconnectUdpLogicServer.
StartTcpNoKey(sock) ==
  /\ tcp' \in Connected(sock)
  /\ QueuesHoldOnly(<< >>)
  /\ StatusIs("CONNECT_ING", "TCP")

StartTcp(sock) ==
  /\ tcp' \in Connected(sock)
  /\ QueuesHoldOnly(<<"KEY">>)
  /\ StatusIs("CONNECT_ING", "TCP")

\* ConnectLogicServer with nothing connected: UDP is preferred.
FirstConnect ==
  \/ use[1] /\ StartUdp(<<"KEY">>) /\ UNCHANGED tcp
  \/ ~use[1] /\ use[2] /\ StartTcp(Invalid) /\ UNCHANGED udp
  \/ ~use[1] /\ ~use[2] /\ UNCHANGED <<queues, m_connect_status,
                                        m_transport_use_protocol, udp, tcp>>

\* Mutant of ReconnectBoth: the TCP connection is not closed first.
ReconnectBothKeepsTcp ==
  \/ /\ m_connect_status = "CONNECT_ING" /\ m_transport_use_protocol = "TCP"
     /\ StartUdp(<< >>) /\ UNCHANGED tcp
  \/ /\ m_connect_status = "CONNECT_ING" /\ m_transport_use_protocol # "TCP"
     /\ udp' = Invalid /\ StartTcp(tcp)
  \/ /\ m_connect_status = "CONNECT_SUCCESS" /\ m_transport_use_protocol = "TCP"
     /\ StartTcp(tcp) /\ UNCHANGED udp
  \/ /\ m_connect_status = "CONNECT_SUCCESS" /\ m_transport_use_protocol # "TCP"
     /\ StartUdp(<< >>) /\ UNCHANGED tcp
  \/ m_connect_status = "UNCONNECT" /\ FirstConnect

\* ReconnectUdpLogicServer writes no key, for m_kcp is there.
ReconnectBoth ==
  \/ /\ m_connect_status = "CONNECT_ING" /\ m_transport_use_protocol = "TCP"
     /\ tcp' = Invalid /\ StartUdp(<< >>)
  \/ /\ m_connect_status = "CONNECT_ING" /\ m_transport_use_protocol # "TCP"
     /\ udp' = Invalid /\ StartTcp(tcp)
  \/ /\ m_connect_status = "CONNECT_SUCCESS" /\ m_transport_use_protocol = "TCP"
     /\ StartTcp(Invalid) /\ UNCHANGED udp
  \/ /\ m_connect_status = "CONNECT_SUCCESS" /\ m_transport_use_protocol # "TCP"
     /\ StartUdp(<< >>) /\ UNCHANGED tcp
  \/ m_connect_status = "UNCONNECT" /\ FirstConnect

Reconnect ==
  \/ use = <<TRUE, TRUE>> /\ ReconnectBoth
  \/ use = <<TRUE, FALSE>> /\ tcp' = Invalid /\ StartUdp(<< >>)
  \/ use = <<FALSE, TRUE>> /\ StartTcp(tcp) /\ UNCHANGED udp

ReconnectLogicServer ==
  /\ Reconnect
  /\ UNCHANGED <<m_kcp_status, m_conv, m_server_ip, use, will_send>>

ConnectLogicServer ==
  /\ \/ m_connect_status # "UNCONNECT" /\ Reconnect
     \/ m_connect_status = "UNCONNECT" /\ FirstConnect
  /\ UNCHANGED <<m_kcp_status, m_conv, m_server_ip, use, will_send>>

\* Only the socket of the transport in use is closed.
CloseLogicConnect ==
  /\ udp' = IF m_transport_use_protocol = "UDP" THEN Invalid ELSE udp
  /\ tcp' = IF m_transport_use_protocol = "TCP" THEN Invalid ELSE tcp
  /\ StatusIs("UNCONNECT", "UNKNOW")
  /\ m_kcp_status' = "UN_CONNECT"
  /\ QueuesHoldOnly(<< >>)
  /\ UNCHANGED <<m_conv, m_server_ip, use, will_send>>

\* ChangeAddress: a new KCP, empty queues, and the sockets as they were.
ChangeAddress(s) ==
  /\ m_server_ip' = s
  /\ StatusIs("UNCONNECT", "UNKNOW")
  /\ m_kcp_status' = "CONNECT"
  /\ m_conv' = Invalid
  /\ will_send' = FALSE
  /\ QueuesHoldOnly(<< >>)
  /\ tcp' = IF tcp = Invalid THEN Invalid ELSE [tcp EXCEPT !.left = TRUE]
  /\ UNCHANGED <<use, udp>>

SetUse(pair) ==
  /\ use' = pair
  /\ UNCHANGED <<status, m_conv, m_server_ip, will_send, queues, udp, tcp>>

-----------------------------------------------------------------------------
(* SendData and ReceiveData on the socket of the transport in use *)

\* The first of items to reach the server on a socket is the key, and no other.
Begun(sock, items) ==
  IF items = << >> THEN sock.begun
  ELSE IF sock.begun # "MIXED" /\ (sock.begun = "NOTHING" <=> Head(items) = "KEY")
  THEN "KEY" ELSE "MIXED"

\* k items are sent to their end and, with h, the first part of one more.
Wrote(sock, queue, k, h) ==
  LET framed == sock.tx_inside = half_sent
      first  == IF half_sent THEN 2 ELSE 1
  IN  [sock EXCEPT !.tx_inside = (framed <=> h),
                   !.begun = Begun(sock, SubSeq(queue, first, IF h THEN k + 1 ELSE k)),
                   !.asked = @ \/ /\ framed /\ sock.link = "OPEN"
                                  /\ \E i \in 1 .. k : queue[i] = "ASK"]

\* SendTcpData sends what the socket takes, in order: nothing if it is full.
SendTcp(sock, queue) ==
  {[sock |-> sock, queue |-> queue, half |-> half_sent]}
    \cup (IF sock = Invalid \/ sock.link \notin {"OPEN", "EOF"} THEN {}
          ELSE {[sock  |-> Wrote(sock, queue, c[1], c[2]),
                 queue |-> SubSeq(queue, c[1] + 1, Len(queue)), half |-> c[2]] :
                  c \in {d \in (0 .. Len(queue)) \X BOOLEAN :
                           IF d[2] THEN d[1] < Len(queue) ELSE d[1] > 0}})

\* One datagram without a conv, which may get lost; with one, what is left in
\* m_un_send_queue stays there.
SendUdp(sock, queue) ==
  {[sock |-> sock, queue |-> queue]}
    \cup (IF sock = Invalid \/ m_conv # Invalid \/ queue = << >> THEN {}
          ELSE {[sock |-> [sock EXCEPT !.asked = @ \/ (arrives /\ queue[Len(queue)] = "ASK")],
                 queue |-> << >>] : arrives \in BOOLEAN})

Nothing(sock, part) == [sock |-> sock, part |-> part, kind |-> "NONE"]

\* What reading an open TCP socket adds to m_un_receive_queue.
Reads(sock, part) ==
  {Nothing(sock, part)}
    \cup (IF part = "EMPTY" /\ ~sock.rx_inside /\ Kinds(sock) # {}
          THEN {Nothing([sock EXCEPT !.rx_inside = TRUE], "PART")} ELSE {})
    \cup (IF (part = "EMPTY") = ~sock.rx_inside /\ part # "GARBAGE"
          THEN {[sock |-> [sock EXCEPT !.rx_inside = FALSE], part |-> "EMPTY",
                 kind |-> k] : k \in Kinds(sock)} ELSE {})
    \cup (IF part = "EMPTY" /\ sock.rx_inside
          THEN {Nothing([sock EXCEPT !.rx_inside = FALSE], "GARBAGE")} ELSE {})

\* recv returns 0 at the end of the stream: ClosedByServer.
ReceiveTcp(sock, part) ==
  IF sock = Invalid \/ sock.link = "PENDING" THEN {Nothing(sock, part)}
  ELSE IF sock.link = "REFUSED" THEN {Nothing(sock, part), Nothing(Invalid, part)}
  ELSE IF sock.link = "OPEN" THEN Reads(sock, part)
  ELSE {[r EXCEPT !.sock = Invalid] : r \in Reads(sock, part)}

ReceiveUdp(sock) ==
  {"NONE"} \cup (IF sock = Invalid THEN {} ELSE Kinds(sock))

\* A packet of the server: the first conv it assigns is kept.
Handle(kind, server, has_data) ==
  /\ m_conv' = IF kind = "CONV" /\ m_conv = Invalid THEN server ELSE m_conv
  /\ m_kcp_status' = IF kind = "EXIT" THEN "EXIT" ELSE m_kcp_status
  /\ will_send' \in {has_data} \cup (IF kind = "DATA" THEN {FALSE} ELSE {})

\* Mutant of StatusAfter: what was read is looked at first.
StatusAfterBytesFirst(bytes, closed) ==
  m_connect_status' = IF bytes /\ m_connect_status = "CONNECT_ING"
                      THEN "CONNECT_SUCCESS"
                      ELSE IF closed THEN "UNCONNECT" ELSE m_connect_status

StatusAfter(bytes, closed) ==
  m_connect_status' = IF closed THEN "UNCONNECT"
                      ELSE IF bytes /\ m_connect_status = "CONNECT_ING"
                      THEN "CONNECT_SUCCESS" ELSE m_connect_status

\* After ReceiveTcp: recv at the end of the stream outweighs data before it.
Received(r, has_data) ==
  /\ m_un_receive_queue' = r.part
  /\ StatusAfter(r.kind # "NONE" \/ r.part # m_un_receive_queue, r.sock = Invalid /\ tcp # Invalid)
  /\ Handle(r.kind, IF tcp = Invalid THEN Invalid ELSE tcp.server, has_data)

\* Over TCP what ikcp_update puts out goes through m_un_send_queue.
Flushed(queue) ==
  {queue} \cup (IF Len(queue) < MaxUnSend THEN {Append(queue, "SEG")} ELSE {})

\* Without a conv Update sends, then receives; with one, the other way round.
UpdateTcp(queue, has_data) ==
  /\ \/ /\ m_conv = Invalid
        /\ \E s \in SendTcp(tcp, queue) : \E r \in ReceiveTcp(s.sock, m_un_receive_queue) :
             /\ tcp' = r.sock
             /\ m_un_send_queue' = s.queue /\ half_sent' = s.half
             /\ Received(r, has_data)
     \/ /\ m_conv # Invalid
        /\ \E r \in ReceiveTcp(tcp, m_un_receive_queue), flushed \in Flushed(queue) :
             \E s \in SendTcp(r.sock, flushed) :
               /\ tcp' = s.sock
               /\ m_un_send_queue' = s.queue /\ half_sent' = s.half
               /\ Received(r, has_data)
  /\ UNCHANGED udp

UpdateUdp(queue, has_data) ==
  /\ \E s \in SendUdp(udp, queue) : \E kind \in ReceiveUdp(s.sock) :
       /\ udp' = s.sock
       /\ m_un_send_queue' = s.queue
       /\ StatusAfter(kind # "NONE", FALSE)
       /\ Handle(kind, IF udp = Invalid THEN Invalid ELSE udp.server, has_data)
  /\ UNCHANGED <<half_sent, m_un_receive_queue, tcp>>

Update(queue, has_data) ==
  /\ \/ m_kcp_status # "EXIT" /\ m_transport_use_protocol = "TCP" /\ UpdateTcp(queue, has_data)
     \/ m_kcp_status # "EXIT" /\ m_transport_use_protocol = "UDP" /\ UpdateUdp(queue, has_data)
     \/ /\ m_kcp_status = "EXIT" \/ m_transport_use_protocol = "UNKNOW"
        /\ m_un_send_queue' = queue /\ will_send' = has_data
        /\ UNCHANGED <<m_connect_status, m_kcp_status, m_conv, half_sent,
                       m_un_receive_queue, udp, tcp>>
  /\ UNCHANGED <<m_transport_use_protocol, m_server_ip, use>>

-----------------------------------------------------------------------------
(* The calls of the application *)

\* Mutant of Asked: the request is only put behind the key.
AskedOnce(queue) ==
  IF m_conv = Invalid /\ queue = <<"KEY">> /\ ~half_sent
  THEN Append(queue, "ASK") ELSE queue

\* GetConvFromServer asks (again) once all is sent but the key.
Asked(queue) ==
  IF m_conv = Invalid /\ (queue = << >> \/ (queue = <<"KEY">> /\ ~half_sent))
  THEN Append(queue, "ASK") ELSE queue

\* Without a conv only the first message is taken.  One that does not fit in
\* m_send_queue, or is too short, ends the session.
SendOneCode(accepted) ==
  \/ /\ m_conv = Invalid /\ will_send
     /\ Update(Asked(m_un_send_queue), TRUE)
  \/ /\ m_conv # Invalid \/ ~will_send
     /\ accepted /\ Update(Asked(m_un_send_queue), TRUE)
  \/ /\ m_conv # Invalid \/ ~will_send
     /\ ~accepted /\ m_kcp_status' = "EXIT"
     /\ m_un_send_queue' = Asked(m_un_send_queue)
     /\ UNCHANGED <<m_connect_status, m_transport_use_protocol, m_conv,
                    m_server_ip, use, will_send, half_sent,
                    m_un_receive_queue, udp, tcp>>

ReceiveOneCode ==
  /\ m_connect_status # "UNCONNECT" /\ m_transport_use_protocol # "UNKNOW"
  /\ m_kcp_status # "EXIT"
  /\ Update(m_un_send_queue, will_send)

-----------------------------------------------------------------------------
(* The environment *)

Links(from, to) ==
  /\ tcp # Invalid /\ tcp.link = from
  /\ tcp' = [tcp EXCEPT !.link = to]
  /\ UNCHANGED <<status, m_conv, m_server_ip, use, will_send, queues, udp>>

\* A connection attempt that outlasted the select succeeds after all.
LateConnect == Links("PENDING", "OPEN")

ServerCloses == Links("OPEN", "EOF")

Next ==
  \/ ConnectLogicServer \/ ReconnectLogicServer \/ CloseLogicConnect
  \/ \E s \in Server : ChangeAddress(s)
  \/ \E pair \in Protocols : SetUse(pair)
  \/ \E accepted \in BOOLEAN : SendOneCode(accepted)
  \/ ReceiveOneCode
  \/ LateConnect \/ ServerCloses

Spec == Init /\ [][Next]_vars

-----------------------------------------------------------------------------
\* Type invariant.
TypeOK ==
  /\ m_connect_status \in {"UNCONNECT", "CONNECT_ING", "CONNECT_SUCCESS"}
  /\ m_transport_use_protocol \in {"UNKNOW", "TCP", "UDP"}
  /\ m_kcp_status \in {"UN_CONNECT", "CONNECT", "EXIT"}
  /\ m_conv \in Server \cup {Invalid} /\ m_server_ip \in Server
  /\ use \in Protocols /\ will_send \in BOOLEAN
  /\ m_un_send_queue \in Seq(Item) /\ half_sent \in BOOLEAN
  /\ m_un_receive_queue \in Part
  /\ udp \in UdpSocket \cup {Invalid} /\ tcp \in TcpSocket \cup {Invalid}

\* The end of a packet is never read as the start of one: "the receive queue
\* must be cleared as well, or the new packets after connecting fill up the
\* half received before and all goes wrong" (tcp_connection.cpp:52).
PacketsIntact == m_un_receive_queue # "GARBAGE"

\* A TCP socket that is Connect's own: it was not connected again with TCP
\* alone in use, nor left open by ChangeAddress.
Own(sock) == sock # Invalid /\ ~sock.kept /\ ~sock.left

\* The reader and the writer of a TCP stream agree with it on where packets
\* begin: the queues are never cleared in the middle of a packet while the
\* connection that carries it lives on, unless TCP alone is in use or the
\* address changes.
FramesAligned ==
  Own(tcp) => /\ tcp.rx_inside <=> m_un_receive_queue = "PART"
              /\ tcp.tx_inside <=> half_sent

\* What the client sends on a TCP connection is its key once, then packets,
\* unless TCP alone is in use and Connect was called again, or the connection
\* outlived a change of address.
KeyFirst == Own(tcp) => tcp.begun # "MIXED"

\* Action property: a conv is given up when the address changes, and a new one
\* comes from the server the application asked for.  Only over TCP, and only
\* over a socket that ChangeAddress left open, can the old server assign it.
SessionOfTarget ==
  [][m_conv' # Invalid => \/ m_conv' = m_server_ip'
                          \/ UNCHANGED <<m_conv, m_server_ip>>
                          \/ m_transport_use_protocol = "TCP" /\ tcp # Invalid /\ tcp.left]_vars

\* A socket of TCP is open only while TCP is the transport in use, unless
\* ChangeAddress left it open.
TcpOnlyInUse == tcp # Invalid => m_transport_use_protocol = "TCP" \/ tcp.left

\* CONNECT_SUCCESS is reported only while there is a socket to use, also when
\* data and the end of the stream are read in one call.
SuccessHasSocket ==
  m_connect_status = "CONNECT_SUCCESS" =>
    \/ m_transport_use_protocol = "TCP" /\ tcp # Invalid
    \/ m_transport_use_protocol = "UDP" /\ udp # Invalid
=============================================================================
