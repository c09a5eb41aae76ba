------------------------------- MODULE KcpFlush ------------------------------
(***************************************************************************)
(* ikcp_flush (src/ikcp.c) over TCP, byte by byte: it encodes segments in  *)
(* a buffer of one datagram and puts the buffer into m_un_send_queue when  *)
(* the next segment does not fit.  Before each segment it asks             *)
(* KcpCanOutput whether the queue has room for the buffer and the segment, *)
(* and gives up where it has not.  The socket takes what it likes from the *)
(* front of the queue whenever SendData is called.                         *)
(*                                                                         *)
(* Which segments are due and what the window admits are choices here: the *)
(* modules KcpTimer and Kcp are about those.  One iteration of a loop of   *)
(* the flush is one step; nothing else happens between StartFlush and the  *)
(* end of the flush.                                                       *)
(***************************************************************************)
EXTENDS Integers, Sequences

CONSTANTS
  Capacity,            \* bytes m_un_send_queue can hold
  Mtu, Overhead,       \* bytes of a datagram and of a segment's head
  Segs,                \* segments 1 .. Segs are sent in all
  Size,                \* payload bytes of each
  MaxGiven,            \* bound: acknowledgements asked for in all
  MaxXmit              \* bound: transmissions of one segment

Numbers == 1 .. Segs

ASSUME FlushAssumption ==
  /\ Capacity \in Nat /\ Mtu \in Nat /\ Overhead \in Nat \ {0}
  /\ Overhead <= Mtu
  /\ Segs \in Nat /\ Size \in [Numbers -> Nat]
  /\ \A g \in Numbers : Overhead + Size[g] <= Mtu
  /\ MaxGiven \in Nat /\ MaxXmit \in Nat

VARIABLES
  step,                \* where ikcp_flush is; "idle" outside it
  used,                \* bytes in m_un_send_queue
  size,                \* ptr - buffer
  acklist,             \* acknowledgements to send, named 1, 2, ...
  encoded,             \* how many of them this flush has encoded: i
  probe,               \* IKCP_ASK_SEND and IKCP_ASK_TELL
  snd_buf,             \* segments sent and not acknowledged
  snd_nxt,             \* next segment to move to snd_buf
  due,                 \* segments whose resendts has passed
  at,                  \* the segment the data loop looks at: p
  xmit,                \* transmissions of each segment, as kcp counts them
  exited,              \* m_kcp_status is KCP_CONNECT_EXIT_STATUS
  given,               \* history: acknowledgements asked for
  owed,                \* history: the peer's probe is not answered yet
  held,                \* history: what buffer holds
  put,                 \* history: acknowledgements put into the queue
  lost,                \* history: acknowledgements encoded and never put
  times                \* history: times each segment was put into the queue

out   == <<used, size, held, put, owed, times, exited>>
acks  == <<acklist, encoded, given, lost>>
data  == <<snd_buf, snd_nxt, due, at, xmit>>
vars  == <<step, out, acks, probe, data>>

Contents == [acks : SUBSET Nat, probes : SUBSET {"WASK", "WINS"}, segs : SUBSET Numbers]
Nothing  == [acks |-> {}, probes |-> {}, segs |-> {}]

Init ==
  /\ step = "idle" /\ used = 0 /\ size = 0
  /\ acklist = << >> /\ encoded = 0 /\ probe = {}
  /\ snd_buf = {} /\ snd_nxt = 1 /\ due = {} /\ at = 1
  /\ xmit = [g \in Numbers |-> 0]
  /\ exited = FALSE
  /\ given = 0 /\ owed = FALSE /\ held = Nothing /\ put = {} /\ lost = {}
  /\ times = [g \in Numbers |-> 0]

-----------------------------------------------------------------------------
(* The queue *)

\* ConnectionManager::CanSendData: what the queue may hold after it, SendData
\* having been called if len bytes did not fit.
Cleared(len) == IF len > Capacity - used THEN 0 .. used ELSE {used}

\* Its answer, which leaves one byte to spare.
HasRoom(len, left) == len < Capacity - left

\* KcpOutput: buffer goes into the queue, of which the socket then takes some.
Output(left) ==
  IF size > Capacity - left
  THEN exited' = TRUE /\ used' = left /\ UNCHANGED <<put, owed, times>>
  ELSE /\ used' \in 0 .. left + size
       /\ put' = put \cup held.acks
       /\ times' = [g \in Numbers |-> times[g] + (IF g \in held.segs THEN 1 ELSE 0)]
       /\ owed' = (owed /\ "WINS" \notin held.probes)
       /\ UNCHANGED exited

With(what) == [acks |-> held.acks \cup what.acks,
               probes |-> held.probes \cup what.probes,
               segs |-> held.segs \cup what.segs]

\* A segment of need bytes is encoded behind the buffer, or the buffer is put
\* out first if it would become larger than a datagram.
Encode(need, what, left) ==
  \/ /\ size + need > Mtu
     /\ Output(left) /\ size' = need /\ held' = what
  \/ /\ size + need <= Mtu
     /\ size' = size + need
     /\ held' = With(what)
     /\ used' = left /\ UNCHANGED <<put, owed, times, exited>>

\* Mutant of Room: the bytes already in the buffer are left out.
RoomForNeed(need, left) == HasRoom(need, left)

\* What ikcp_canoutput is asked for.
Room(need, left) == HasRoom(need + size, left)

Fits(need, what, left) == Room(need, left) /\ Encode(need, what, left)

\* The buffer is left alone: what it holds is never put out.
Abandon(left) ==
  /\ step' = "idle" /\ size' = 0 /\ held' = Nothing
  /\ lost' = lost \cup held.acks
  /\ used' = left /\ UNCHANGED <<put, owed, times, exited>>

-----------------------------------------------------------------------------
(* ikcp_flush *)

StartFlush ==
  /\ step = "idle"
  /\ step' = "acks" /\ encoded' = 0
  /\ UNCHANGED <<out, acklist, given, lost, probe, data>>

\* Mutant of AckMove: the list is shortened at its end.
AckMoveNone(i) == SubSeq(acklist, 1, Len(acklist) - i)

AckMove(i) == SubSeq(acklist, i + 1, Len(acklist))

FlushAck ==
  /\ step = "acks" /\ encoded < Len(acklist)
  /\ \E left \in Cleared(Overhead + size) :
       \/ /\ Fits(Overhead, [Nothing EXCEPT !.acks = {acklist[encoded + 1]}], left)
          /\ encoded' = encoded + 1
          /\ UNCHANGED <<step, acklist, lost>>
       \/ /\ ~Room(Overhead, left)
          /\ Abandon(left)
          /\ acklist' = AckMove(encoded) /\ encoded' = 0
  /\ UNCHANGED <<given, probe, data>>

\* The probe timer may fall due here.
AcksFlushed ==
  /\ step = "acks" /\ encoded = Len(acklist)
  /\ step' = "WASK" /\ acklist' = << >> /\ encoded' = 0
  /\ probe' \in {probe, probe \cup {"WASK"}}
  /\ UNCHANGED <<out, given, lost, data>>

\* The window's choice: segments move from snd_queue to snd_buf.  The timers'
\* choice: any segment sent before may be due.
StartData ==
  /\ step' = "data"
  /\ \E k \in snd_nxt .. Segs + 1 :
       snd_nxt' = k /\ snd_buf' = snd_buf \cup snd_nxt .. k - 1
  /\ due' \in SUBSET {g \in snd_buf : xmit[g] > 0 /\ xmit[g] < MaxXmit}
  /\ at' = 1
  /\ UNCHANGED xmit

\* Mutant of FlushProbe: the flag is cleared although the probe was refused.
FlushProbeForget(cmd) ==
  /\ step = cmd /\ cmd \in probe
  /\ \E left \in Cleared(Overhead + size) :
       \/ /\ Fits(Overhead, [Nothing EXCEPT !.probes = {cmd}], left)
          /\ step' = IF cmd = "WASK" THEN "WINS" ELSE "window"
          /\ UNCHANGED lost
       \/ /\ ~Room(Overhead, left) /\ Abandon(left)
  /\ probe' = probe \ {cmd}
  /\ UNCHANGED <<acklist, encoded, given, data>>

\* The probe and the announcement of the window; the flag stays when refused.
FlushProbe(cmd) ==
  /\ step = cmd /\ cmd \in probe
  /\ \E left \in Cleared(Overhead + size) :
       \/ /\ Fits(Overhead, [Nothing EXCEPT !.probes = {cmd}], left)
          /\ step' = IF cmd = "WASK" THEN "WINS" ELSE "window"
          /\ probe' = probe \ {cmd}
          /\ UNCHANGED lost
       \/ /\ ~Room(Overhead, left) /\ Abandon(left) /\ UNCHANGED probe
  /\ UNCHANGED <<acklist, encoded, given, data>>

NoProbe(cmd) ==
  /\ step = cmd /\ cmd \notin probe
  /\ step' = IF cmd = "WASK" THEN "WINS" ELSE "window"
  /\ UNCHANGED <<out, acks, probe, data>>

FlushWindow ==
  /\ step = "window"
  /\ StartData
  /\ UNCHANGED <<out, acks, probe>>

NeedsSend(g) == g \in snd_buf /\ (xmit[g] = 0 \/ g \in due)

\* Mutant of FlushSegment: xmit is not taken back when the segment is refused.
FlushSegmentCounted ==
  /\ step = "data" /\ at <= Segs /\ NeedsSend(at)
  /\ \E left \in Cleared(Overhead + Size[at] + size) :
       \/ /\ Fits(Overhead + Size[at], [Nothing EXCEPT !.segs = {at}], left)
          /\ at' = at + 1 /\ UNCHANGED step
       \/ /\ ~Room(Overhead + Size[at], left)
          /\ step' = "rest"
          /\ used' = left /\ UNCHANGED <<at, size, held, put, owed, times, exited>>
  /\ xmit' = [xmit EXCEPT ![at] = @ + 1]
  /\ UNCHANGED <<acks, probe, snd_buf, snd_nxt, due>>

\* A refused segment ends the loop; its xmit, counted up before, is taken back.
FlushSegment ==
  /\ step = "data" /\ at <= Segs /\ NeedsSend(at)
  /\ \E left \in Cleared(Overhead + Size[at] + size) :
       \/ /\ Fits(Overhead + Size[at], [Nothing EXCEPT !.segs = {at}], left)
          /\ xmit' = [xmit EXCEPT ![at] = @ + 1]
          /\ at' = at + 1 /\ UNCHANGED step
       \/ /\ ~Room(Overhead + Size[at], left)
          /\ step' = "rest"
          /\ used' = left /\ UNCHANGED <<at, xmit, size, held, put, owed, times, exited>>
  /\ UNCHANGED <<acks, probe, snd_buf, snd_nxt, due>>

\* Mutant of SkipSegment: the loop runs past the end of snd_buf.
SkipSegmentPast ==
  /\ step = "data" /\ (at > Segs \/ ~NeedsSend(at))
  /\ at' = at + 1
  /\ UNCHANGED <<step, out, acks, probe, snd_buf, snd_nxt, due, xmit>>

SkipSegment ==
  /\ step = "data" /\ at <= Segs /\ ~NeedsSend(at)
  /\ at' = at + 1
  /\ UNCHANGED <<step, out, acks, probe, snd_buf, snd_nxt, due, xmit>>

\* What remains in the buffer is put out.
FlushRest ==
  /\ step = "rest" \/ (step = "data" /\ at = Segs + 1)
  /\ step' = "idle"
  /\ \/ size > 0 /\ Output(used) /\ size' = 0 /\ held' = Nothing
     \/ size = 0 /\ UNCHANGED out
  /\ UNCHANGED <<acks, probe, data>>

-----------------------------------------------------------------------------
(* Between flushes *)

\* ikcp_input: a PUSH asks for an acknowledgement, a WASK for the window, an
\* ACK or una releases a segment.
AskAck ==
  /\ step = "idle" /\ given < MaxGiven
  /\ given' = given + 1 /\ acklist' = Append(acklist, given')
  /\ UNCHANGED <<step, out, encoded, lost, probe, data>>

AskTell ==
  /\ step = "idle"
  /\ probe' = probe \cup {"WINS"} /\ owed' = TRUE
  /\ UNCHANGED <<step, used, size, held, put, times, exited, acks, data>>

Acknowledged(g) ==
  /\ step = "idle" /\ g \in snd_buf /\ times[g] > 0
  /\ snd_buf' = snd_buf \ {g}
  /\ UNCHANGED <<step, out, acks, probe, snd_nxt, due, at, xmit>>

\* SendData at the end of Update.
SendData ==
  /\ step = "idle" /\ used' \in 0 .. used
  /\ UNCHANGED <<step, size, held, put, owed, times, exited, acks, probe, data>>

Next ==
  \/ StartFlush \/ FlushAck \/ AcksFlushed
  \/ \E cmd \in {"WASK", "WINS"} : FlushProbe(cmd) \/ NoProbe(cmd)
  \/ FlushWindow \/ FlushSegment \/ SkipSegment \/ FlushRest
  \/ AskAck \/ AskTell \/ SendData
  \/ \E g \in Numbers : Acknowledged(g)

Spec == Init /\ [][Next]_vars

-----------------------------------------------------------------------------
(* Properties *)

\* Type invariant.
TypeOK ==
  /\ step \in {"idle", "acks", "WASK", "WINS", "window", "data", "rest"}
  /\ used \in 0 .. Capacity /\ size \in Nat
  /\ acklist \in Seq(Nat) /\ encoded \in 0 .. Len(acklist)
  /\ probe \subseteq {"WASK", "WINS"}
  /\ snd_buf \subseteq Numbers /\ snd_nxt \in 1 .. Segs + 1
  /\ due \subseteq Numbers /\ at \in 1 .. Segs + 1
  /\ xmit \in [Numbers -> Nat] /\ times \in [Numbers -> Nat]
  /\ exited \in BOOLEAN /\ given \in Nat /\ owed \in BOOLEAN
  /\ put \subseteq Nat /\ lost \subseteq Nat
  /\ held \in Contents

\* A flush never ends the session: whatever the socket takes, the room that
\* KcpCanOutput has promised is still there when KcpOutput puts the buffer
\* into m_un_send_queue.
NeverExits == ~exited

\* The buffer never holds more than a datagram, so that ikcp_output never
\* hands SendData more than it sends over UDP.
OneDatagram == size <= Mtu

\* Acknowledgements asked for and not yet encoded.
Waiting == {acklist[i] : i \in encoded + 1 .. Len(acklist)}

\* However a flush is refused, every acknowledgement is in exactly one place:
\* waiting, in the buffer, put out, or lost with an abandoned buffer.  None is
\* put out twice, and none that was not encoded is dropped.
AcksAccounted ==
  /\ 1 .. given = Waiting \cup held.acks \cup put \cup lost
  /\ Waiting \cap (held.acks \cup put \cup lost) = {}
  /\ held.acks \cap (put \cup lost) = {}
  /\ put \cap lost = {}
  /\ step = "idle" => held.acks = {}

\* xmit counts what was really put out: a segment refused on its first try
\* still counts as never sent, so that the next flush sends it at once, not
\* after a timeout.
XmitTrue ==
  \A g \in Numbers : xmit[g] = times[g] + (IF g \in held.segs THEN 1 ELSE 0)

\* The answer to a window probe is never lost on the way to the queue: until
\* it is there, it is asked for or in a buffer that no refusal abandons any
\* more.  Of the probe itself this does not hold.
AnswerKept == owed => "WINS" \in probe \cup held.probes
=============================================================================
