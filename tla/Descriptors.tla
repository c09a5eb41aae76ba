------------------------------ MODULE Descriptors ------------------------------
(***************************************************************************)
(* The descriptors of the process that the two transports hold: m_sockfd   *)
(* of UDPSession (src/udp_session.cpp, src/udp_connection.cpp) and         *)
(* m_iSocketID of Socket and TcpConnection (src/connection.cpp,            *)
(* src/tcp_connection.cpp), through connecting, failing to, and closing.   *)
(* The rest of the process opens and closes others in between.  What       *)
(* travels over the sockets is the module Connection.                      *)
(***************************************************************************)
EXTENDS Integers

CONSTANTS
  MaxFd,               \* bound: the largest descriptor
  FdSetMax             \* fdsetMax of SocketSet: what a select can watch

ASSUME FdAssumption == MaxFd \in Nat /\ MaxFd >= 3 /\ FdSetMax \in Nat

Fd == 0 .. MaxFd

VARIABLES
  fds,                 \* what each descriptor is
  m_sockfd,            \* of UDPSession
  m_iSocketID,         \* of TcpConnection, a Socket
  in_error,            \* its m_enmConnectionStatus is enmConnectionStatus_Error
  misused,             \* history: the descriptors of others that were used
  failed               \* history: a UDP reconnection failed

vars == <<fds, m_sockfd, m_iSocketID, in_error, misused, failed>>

udp == <<m_sockfd, failed>>
tcp == <<m_iSocketID, in_error>>

\* socket() gives the lowest free descriptor, or fails.
LowestFree(table, f) ==
  table[f] = "FREE" /\ \A g \in 0 .. f - 1 : table[g] # "FREE"

\* What table and the descriptor become when kind asks for a socket.
Sockets(table, kind) ==
  {<<table, -1>>} \cup {<<[table EXCEPT ![f] = kind], f>> :
                          f \in {g \in Fd : LowestFree(table, g)}}

\* close() of -1 or of a free descriptor fails and does nothing.
Closed(table, f) == [g \in Fd |-> IF g = f THEN "FREE" ELSE table[g]]

\* kind reads, writes or closes f.
Uses(kind, f) ==
  misused' = misused \cup {g \in Fd : g = f /\ fds[g] \notin {"FREE", kind}}

\* Descriptors 0, 1 and 2 are open when a process starts; TcpConnection makes
\* a socket when it is constructed.
Init ==
  /\ \E made \in Sockets([f \in Fd |-> IF f <= 2 THEN "OTHER" ELSE "FREE"], "TCP") :
       fds = made[1] /\ m_iSocketID = made[2]
  /\ m_sockfd = -1
  /\ in_error = FALSE
  /\ misused = {}
  /\ failed = FALSE

-----------------------------------------------------------------------------
(* UDPSession *)

\* Connect closes the socket it had first, and then no longer knows -1.
Stale == IF m_sockfd = -1 THEN -1 ELSE 0

\* Mutant of UdpConnectFails: the new socket is not closed.
UdpConnectFailsOpen ==
  /\ \E made \in Sockets(Closed(fds, m_sockfd), "UDP") : fds' = made[1]
  /\ m_sockfd' = Stale
  /\ failed' = (failed \/ m_sockfd # -1)
  /\ Uses("UDP", m_sockfd)
  /\ UNCHANGED tcp

\* getaddrinfo() or socket() fails, or connect() or fcntl() does and the new
\* socket is closed again: either way nothing more than the old one is closed.
UdpConnectFails ==
  /\ fds' = Closed(fds, m_sockfd)
  /\ m_sockfd' = Stale
  /\ failed' = (failed \/ m_sockfd # -1)
  /\ Uses("UDP", m_sockfd)
  /\ UNCHANGED tcp

UdpConnects ==
  /\ \E made \in Sockets(Closed(fds, m_sockfd), "UDP") :
       made[2] # -1 /\ fds' = made[1] /\ m_sockfd' = made[2]
  /\ Uses("UDP", m_sockfd)
  /\ UNCHANGED <<failed, tcp>>

\* Mutant of CloseConnect: m_sockfd is not reset.
CloseConnectOnly ==
  /\ fds' = Closed(fds, m_sockfd)
  /\ Uses("UDP", m_sockfd)
  /\ UNCHANGED <<udp, tcp>>

\* Also what the destructor of UdpConnection does.
CloseConnect ==
  /\ fds' = Closed(fds, m_sockfd)
  /\ m_sockfd' = -1
  /\ Uses("UDP", m_sockfd)
  /\ UNCHANGED <<failed, tcp>>

\* Neither looks at m_sockfd before it uses it.
ReadOrSend ==
  /\ Uses("UDP", m_sockfd)
  /\ UNCHANGED <<fds, udp, tcp>>

-----------------------------------------------------------------------------
(* TcpConnection *)

\* Can select report s?  SocketSet::Add refuses what does not fit in an fd_set;
\* with -1 it counts a socket that select, told to look at none, ignores.
Selectable(s) == s # -1 /\ s < FdSetMax

\* The socket Connect tries: a new one if there is none, or if the last attempt
\* ended in error, for then it is closed first.
Tried ==
  LET kept == IF in_error THEN -1 ELSE m_iSocketID
      left == IF in_error THEN Closed(fds, m_iSocketID) ELSE fds
  IN  IF kept = -1 THEN Sockets(left, "TCP") ELSE {<<left, kept>>}

\* An attempt that ends in error leaves its socket open, and usable.
Connect(connected) ==
  /\ \E made \in Tried :
       /\ connected => Selectable(made[2])
       /\ fds' = made[1] /\ m_iSocketID' = made[2]
  /\ in_error' = ~connected
  /\ Uses("TCP", m_iSocketID)
  /\ UNCHANGED udp

\* Mutant of CloseConn: the status is kept.
CloseConnOnly ==
  /\ fds' = Closed(fds, m_iSocketID)
  /\ Uses("TCP", m_iSocketID)
  /\ UNCHANGED <<udp, tcp>>

\* Also ClosedByServer, when recv returns 0, and the destructor of Socket.
CloseConn ==
  /\ fds' = Closed(fds, m_iSocketID)
  /\ m_iSocketID' = -1
  /\ in_error' = FALSE
  /\ Uses("TCP", m_iSocketID)
  /\ UNCHANGED udp

SendOrReceive ==
  /\ Uses("TCP", m_iSocketID)
  /\ UNCHANGED <<fds, udp, tcp>>

-----------------------------------------------------------------------------
(* The rest of the process *)

OtherOpens ==
  /\ \E made \in Sockets(fds, "OTHER") : fds' = made[1]
  /\ UNCHANGED <<udp, tcp, misused>>

OtherCloses ==
  /\ \E f \in Fd : fds[f] = "OTHER" /\ fds' = Closed(fds, f)
  /\ UNCHANGED <<udp, tcp, misused>>

Next ==
  \/ UdpConnectFails \/ UdpConnects \/ CloseConnect \/ ReadOrSend
  \/ (\E connected \in BOOLEAN : Connect(connected)) \/ CloseConn \/ SendOrReceive
  \/ OtherOpens \/ OtherCloses

Spec == Init /\ [][Next]_vars

-----------------------------------------------------------------------------
\* Type invariant.
TypeOK ==
  /\ fds \in [Fd -> {"FREE", "UDP", "TCP", "OTHER"}]
  /\ m_sockfd \in Fd \cup {-1} /\ m_iSocketID \in Fd \cup {-1}
  /\ in_error \in BOOLEAN /\ failed \in BOOLEAN
  /\ misused \subseteq Fd

\* No socket is forgotten while it is open, wherever a connection attempt of
\* either transport fails and whatever the other one does to descriptor 0.
NoLeak ==
  \A f \in Fd : /\ fds[f] = "UDP" => m_sockfd = f
                /\ fds[f] = "TCP" => m_iSocketID = f

\* What a transport holds is -1 or an open socket it made itself, until a UDP
\* reconnection has failed; and descriptor 0 is the only exception from then on,
\* for either of them.
HoldsItsSocket ==
  /\ m_sockfd = -1 \/ fds[m_sockfd] = "UDP" \/ (failed /\ m_sockfd = 0)
  /\ m_iSocketID = -1 \/ fds[m_iSocketID] = "TCP" \/ (failed /\ m_iSocketID = 0)

\* No transport closes, reads or writes a descriptor that is not its own,
\* except that descriptor 0 is not safe once a UDP reconnection has failed.
HarmConfined == misused \subseteq (IF failed THEN {0} ELSE {})

\* The transports close, read and write no descriptors but their own.  For
\* GetLocalIP and GetLocalPort a session whose id is 0 has no socket
\* (udp_connection.cpp:62, "error: socketid is 0").
OthersUntouched == misused = {}
=============================================================================
