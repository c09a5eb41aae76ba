--------------------------- MODULE DescriptorsProofs ---------------------------
(***************************************************************************)
(* Proofs about Descriptors, for any number of descriptors and any limit   *)
(* of select: no socket is forgotten, and the harm a failed reconnection   *)
(* does is confined to descriptor 0.                                       *)
(***************************************************************************)
EXTENDS Descriptors, TLAPS

Kind == {"FREE", "UDP", "TCP", "OTHER"}

\* The invariant: none of its parts is inductive without the others.
Inv == TypeOK /\ NoLeak /\ HoldsItsSocket /\ HarmConfined

LEMMA FdFacts == 0 \in Fd /\ -1 \notin Fd /\ \A f \in Fd : f \in Nat
BY FdAssumption DEF Fd

LEMMA ClosedFacts ==
  ASSUME NEW table \in [Fd -> Kind], NEW f \in Fd \cup {-1}
  PROVE  /\ Closed(table, f) \in [Fd -> Kind]
         /\ \A g \in Fd : Closed(table, f)[g] = IF g = f THEN "FREE" ELSE table[g]
BY DEF Closed, Kind

LEMMA SocketsFacts ==
  ASSUME NEW table \in [Fd -> Kind], NEW kind \in Kind, NEW made \in Sockets(table, kind)
  PROVE  /\ made[1] \in [Fd -> Kind] /\ made[2] \in Fd \cup {-1}
         /\ made[2] # -1 => table[made[2]] = "FREE"
         /\ \A g \in Fd : made[1][g] = IF g = made[2] THEN kind ELSE table[g]
<1>1. CASE made = <<table, -1>>
  BY <1>1, FdFacts
<1>2. CASE made # <<table, -1>>
  <2>1. PICK f \in Fd : LowestFree(table, f) /\ made = <<[table EXCEPT ![f] = kind], f>>
    BY <1>2 DEF Sockets
  <2> QED BY <2>1, FdFacts DEF LowestFree
<1> QED BY <1>1, <1>2

\* Using what a transport holds harms at most descriptor 0, and that only once
\* a UDP reconnection has failed.
LEMMA UseFacts ==
  ASSUME Inv, Uses("UDP", m_sockfd) \/ Uses("TCP", m_iSocketID)
  PROVE  misused' \subseteq (IF failed THEN {0} ELSE {}) /\ misused' \subseteq Fd
<1>1. misused \subseteq (IF failed THEN {0} ELSE {}) /\ misused \subseteq Fd
  BY DEF Inv, HarmConfined, TypeOK
<1>2. CASE Uses("UDP", m_sockfd)
  <2>1. ASSUME NEW g \in Fd, g = m_sockfd, fds[g] \notin {"FREE", "UDP"}
        PROVE  g = 0 /\ failed
    BY <2>1, FdFacts DEF Inv, HoldsItsSocket
  <2> QED BY <1>1, <1>2, <2>1 DEF Uses
<1>3. CASE Uses("TCP", m_iSocketID)
  <2>1. ASSUME NEW g \in Fd, g = m_iSocketID, fds[g] \notin {"FREE", "TCP"}
        PROVE  g = 0 /\ failed
    BY <2>1, FdFacts DEF Inv, HoldsItsSocket
  <2> QED BY <1>1, <1>3, <2>1 DEF Uses
<1> QED BY <1>2, <1>3

LEMMA InvInit == Init => Inv
<1> SUFFICES ASSUME Init PROVE Inv
  OBVIOUS
<1> DEFINE first == [f \in Fd |-> IF f <= 2 THEN "OTHER" ELSE "FREE"]
<1>1. first \in [Fd -> Kind] /\ "TCP" \in Kind /\ \A f \in Fd : first[f] \in {"OTHER", "FREE"}
  BY DEF Kind
<1>2. PICK made \in Sockets(first, "TCP") : fds = made[1] /\ m_iSocketID = made[2]
  BY DEF Init
<1> HIDE DEF first
<1>3. /\ fds \in [Fd -> Kind] /\ m_iSocketID \in Fd \cup {-1}
      /\ \A g \in Fd : fds[g] = IF g = m_iSocketID THEN "TCP" ELSE first[g]
  BY <1>1, <1>2, SocketsFacts
<1>4. /\ \A f \in Fd : fds[f] = "TCP" => m_iSocketID = f
      /\ \A f \in Fd : fds[f] # "UDP"
      /\ m_iSocketID = -1 \/ fds[m_iSocketID] = "TCP"
  BY <1>1, <1>3
<1> QED BY <1>3, <1>4 DEF Init, Inv, TypeOK, Kind, NoLeak, HoldsItsSocket, HarmConfined

\* What one transport closes and makes leaves the other's socket alone, unless
\* it is descriptor 0 that it closes wrongly.
LEMMA UdpStep ==
  ASSUME Inv,
         UdpConnectFails \/ UdpConnects \/ CloseConnect
  PROVE  Inv'
<1> DEFINE table == Closed(fds, m_sockfd)
<1>0. /\ fds \in [Fd -> Kind] /\ m_sockfd \in Fd \cup {-1}
      /\ m_iSocketID \in Fd \cup {-1} /\ NoLeak /\ HoldsItsSocket
      /\ failed \in BOOLEAN
  BY DEF Inv, TypeOK, Kind
<1>1. /\ table \in [Fd -> Kind]
      /\ \A g \in Fd : table[g] = IF g = m_sockfd THEN "FREE" ELSE fds[g]
  BY <1>0, ClosedFacts
<1> HIDE DEF table
<1>2. /\ \A g \in Fd : table[g] # "UDP"
      /\ \A g \in Fd : table[g] = "TCP" => m_iSocketID = g
  BY <1>0, <1>1 DEF NoLeak
<1>3. m_iSocketID = -1 \/ table[m_iSocketID] = "TCP" \/ (failed /\ m_iSocketID = 0)
  <2>1. CASE m_iSocketID = -1 \/ (failed /\ m_iSocketID = 0)
    BY <2>1
  <2>2. CASE m_iSocketID \in Fd /\ fds[m_iSocketID] = "TCP"
    <3>1. CASE m_iSocketID # m_sockfd
      BY <1>1, <2>2, <3>1
    <3>2. CASE m_iSocketID = m_sockfd
      BY <1>0, <2>2, <3>2, FdFacts DEF HoldsItsSocket
    <3> QED BY <3>1, <3>2
  <2> QED BY <1>0, <2>1, <2>2 DEF HoldsItsSocket
<1>4. /\ Uses("UDP", m_sockfd) /\ UNCHANGED tcp /\ failed' \in BOOLEAN
      /\ failed => failed'
  BY <1>0 DEF UdpConnectFails, UdpConnects, CloseConnect
<1>5. HarmConfined' /\ misused' \subseteq Fd
  BY <1>4, UseFacts DEF HarmConfined
<1>6. CASE UdpConnectFails \/ CloseConnect
  <2>1. /\ fds' = table /\ m_sockfd' \in Fd \cup {-1}
        /\ m_sockfd' = -1 \/ (failed' /\ m_sockfd' = 0)
    BY <1>6, FdFacts DEF UdpConnectFails, CloseConnect, Stale, table
  <2> QED
    BY <1>1, <1>2, <1>3, <1>4, <1>5, <2>1
    DEF Inv, TypeOK, Kind, tcp, NoLeak, HoldsItsSocket
<1>7. CASE UdpConnects
  <2>1. PICK made \in Sockets(table, "UDP") :
          made[2] # -1 /\ fds' = made[1] /\ m_sockfd' = made[2]
    BY <1>7 DEF UdpConnects, table
  <2>2. "UDP" \in Kind
    BY DEF Kind
  <2>3. /\ fds' \in [Fd -> Kind] /\ m_sockfd' \in Fd
        /\ table[m_sockfd'] = "FREE"
        /\ \A g \in Fd : fds'[g] = IF g = m_sockfd' THEN "UDP" ELSE table[g]
    BY <1>1, <2>1, <2>2, SocketsFacts
  <2>4. /\ NoLeak' /\ HoldsItsSocket'
    BY <1>0, <1>1, <1>2, <1>3, <1>4, <2>3 DEF NoLeak, HoldsItsSocket, tcp
  <2> QED
    BY <1>4, <1>5, <2>3, <2>4 DEF Inv, TypeOK, Kind, tcp
<1> QED BY <1>6, <1>7

LEMMA TcpStep ==
  ASSUME Inv,
         (\E connected \in BOOLEAN : Connect(connected)) \/ CloseConn
  PROVE  Inv'
<1>0. /\ fds \in [Fd -> Kind] /\ m_sockfd \in Fd \cup {-1}
      /\ m_iSocketID \in Fd \cup {-1} /\ NoLeak /\ HoldsItsSocket
      /\ failed \in BOOLEAN
  BY DEF Inv, TypeOK, Kind
<1>1. Uses("TCP", m_iSocketID) /\ UNCHANGED udp /\ in_error' \in BOOLEAN
  BY DEF Connect, CloseConn
<1>2. HarmConfined' /\ misused' \subseteq Fd
  BY <1>1, UseFacts DEF HarmConfined, udp
<1>3. SUFFICES /\ fds' \in [Fd -> Kind] /\ m_iSocketID' \in Fd \cup {-1}
               /\ NoLeak' /\ HoldsItsSocket'
  BY <1>0, <1>1, <1>2 DEF Inv, TypeOK, Kind, udp
<1>4. CASE fds' = fds /\ m_iSocketID' = m_iSocketID
  BY <1>0, <1>1, <1>4 DEF NoLeak, HoldsItsSocket, udp
<1>5. CASE \E table \in [Fd -> Kind] :
             /\ table = Closed(fds, m_iSocketID) \/ (table = fds /\ m_iSocketID = -1)
             /\ fds' \in [Fd -> Kind] /\ m_iSocketID' \in Fd \cup {-1}
             /\ m_iSocketID' # -1 => table[m_iSocketID'] = "FREE"
             /\ \A g \in Fd : fds'[g] = IF g = m_iSocketID' THEN "TCP" ELSE table[g]
  <2>1. PICK table \in [Fd -> Kind] :
             /\ table = Closed(fds, m_iSocketID) \/ (table = fds /\ m_iSocketID = -1)
             /\ fds' \in [Fd -> Kind] /\ m_iSocketID' \in Fd \cup {-1}
             /\ m_iSocketID' # -1 => table[m_iSocketID'] = "FREE"
             /\ \A g \in Fd : fds'[g] = IF g = m_iSocketID' THEN "TCP" ELSE table[g]
    BY <1>5
  <2>2. \A g \in Fd : table[g] = IF g = m_iSocketID THEN "FREE" ELSE fds[g]
    BY <1>0, <2>1, ClosedFacts, FdFacts
  <2>3. /\ \A g \in Fd : table[g] # "TCP"
        /\ \A g \in Fd : table[g] = "UDP" => m_sockfd = g
    BY <1>0, <2>2 DEF NoLeak
  <2>4. m_sockfd = -1 \/ table[m_sockfd] = "UDP" \/ (failed /\ m_sockfd = 0)
    BY <1>0, <2>2, FdFacts DEF HoldsItsSocket
  <2>5. NoLeak'
    BY <1>0, <1>1, <2>1, <2>3 DEF NoLeak, udp
  <2>6. HoldsItsSocket'
    BY <1>0, <1>1, <2>1, <2>3, <2>4 DEF HoldsItsSocket, udp
  <2> QED BY <2>1, <2>5, <2>6
<1>6. CASE CloseConn
  <2>1. fds' = Closed(fds, m_iSocketID) /\ m_iSocketID' = -1
    BY <1>6 DEF CloseConn
  <2>2. Closed(fds, m_iSocketID) \in [Fd -> Kind]
    BY <1>0, ClosedFacts
  <2>3. CASE Closed(fds, m_iSocketID) = fds
    BY <1>0, <1>1, <2>1, <2>3 DEF NoLeak, HoldsItsSocket, udp, Closed
  <2>4. CASE Closed(fds, m_iSocketID) # fds
    BY <1>5, <2>1, <2>2, <2>4, FdFacts
  <2> QED BY <2>3, <2>4
<1>7. CASE \E connected \in BOOLEAN : Connect(connected)
  <2>1. PICK made \in Tried : fds' = made[1] /\ m_iSocketID' = made[2]
    BY <1>7 DEF Connect
  <2>2. CASE ~in_error /\ m_iSocketID # -1
    BY <1>4, <2>1, <2>2 DEF Tried
  <2>3. CASE in_error \/ m_iSocketID = -1
    <3> DEFINE left == IF in_error THEN Closed(fds, m_iSocketID) ELSE fds
    <3>1. left \in [Fd -> Kind] /\ "TCP" \in Kind
      BY <1>0, ClosedFacts DEF Kind
    <3>2. made \in Sockets(left, "TCP")
      BY <2>1, <2>3 DEF Tried
    <3>3. left = Closed(fds, m_iSocketID) \/ (left = fds /\ m_iSocketID = -1)
      BY <2>3
    <3> HIDE DEF left
    <3>4. /\ fds' \in [Fd -> Kind] /\ m_iSocketID' \in Fd \cup {-1}
          /\ m_iSocketID' # -1 => left[m_iSocketID'] = "FREE"
          /\ \A g \in Fd : fds'[g] = IF g = m_iSocketID' THEN "TCP" ELSE left[g]
      BY <2>1, <3>1, <3>2, SocketsFacts
    <3> QED BY <1>5, <3>1, <3>3, <3>4
  <2> QED BY <2>2, <2>3
<1> QED BY <1>6, <1>7

LEMMA OtherStep ==
  ASSUME Inv, ReadOrSend \/ SendOrReceive \/ OtherOpens \/ OtherCloses \/ UNCHANGED vars
  PROVE  Inv'
<1>0. fds \in [Fd -> Kind] /\ "OTHER" \in Kind
  BY DEF Inv, TypeOK, Kind
<1>1. CASE ReadOrSend \/ SendOrReceive
  <2>1. HarmConfined' /\ misused' \subseteq Fd
    BY <1>1, UseFacts DEF ReadOrSend, SendOrReceive, HarmConfined, udp
  <2> QED
    BY <1>1, <2>1
    DEF ReadOrSend, SendOrReceive, Inv, TypeOK, NoLeak, HoldsItsSocket, udp, tcp
<1>2. CASE OtherOpens
  <2>1. PICK made \in Sockets(fds, "OTHER") : fds' = made[1]
    BY <1>2 DEF OtherOpens
  <2>2. /\ fds' \in [Fd -> Kind] /\ made[2] \in Fd \cup {-1}
        /\ made[2] # -1 => fds[made[2]] = "FREE"
        /\ \A g \in Fd : fds'[g] = IF g = made[2] THEN "OTHER" ELSE fds[g]
    BY <1>0, <2>1, SocketsFacts
  <2> QED
    BY <1>2, <2>2
    DEF OtherOpens, Inv, TypeOK, Kind, NoLeak, HoldsItsSocket, HarmConfined, udp, tcp
<1>3. CASE OtherCloses
  <2>1. PICK f \in Fd : fds[f] = "OTHER" /\ fds' = Closed(fds, f)
    BY <1>3 DEF OtherCloses
  <2>2. /\ fds' \in [Fd -> Kind]
        /\ \A g \in Fd : fds'[g] = IF g = f THEN "FREE" ELSE fds[g]
    BY <1>0, <2>1, ClosedFacts
  <2> QED
    BY <1>3, <2>1, <2>2
    DEF OtherCloses, Inv, TypeOK, Kind, NoLeak, HoldsItsSocket, HarmConfined, udp, tcp
<1>4. CASE UNCHANGED vars
  BY <1>4 DEF vars, Inv, TypeOK, NoLeak, HoldsItsSocket, HarmConfined
<1> QED BY <1>1, <1>2, <1>3, <1>4

LEMMA InvStep == Inv /\ [Next]_vars => Inv'
BY UdpStep, TcpStep, OtherStep DEF Next

LEMMA InvAlways == Spec => []Inv
<1>1. Init => Inv
  BY InvInit
<1>2. Inv /\ [Next]_vars => Inv'
  BY InvStep
<1> QED BY <1>1, <1>2, PTL DEF Spec

\* Wherever connecting fails, a socket that is open is one that its transport
\* still names: neither forgets a descriptor.
THEOREM NothingLeaks == Spec => []NoLeak
<1>1. Inv => NoLeak
  BY DEF Inv
<1> QED BY <1>1, InvAlways, PTL

\* Each transport holds its own open socket, or none, or descriptor 0 once a UDP
\* reconnection has failed.
THEOREM SocketsAreHeld == Spec => []HoldsItsSocket
<1>1. Inv => HoldsItsSocket
  BY DEF Inv
<1> QED BY <1>1, InvAlways, PTL

\* The transports harm nobody before a UDP reconnection has failed, and no
\* descriptor but 0 afterwards.
THEOREM HarmIsConfined == Spec => []HarmConfined
<1>1. Inv => HarmConfined
  BY DEF Inv
<1> QED BY <1>1, InvAlways, PTL
=============================================================================
