# Verification of client_network

`src/` is the client side of a game's network layer: a reliable byte stream
(KCP) over UDP or TCP to one "logic server", behind a single-threaded class,
`ConnectionManager`. This directory holds TLA+ modules of its parts, TLC runs
that check them on small instances, and TLAPS proofs for every value of the
constants. `PROJECT.json` lists runs, mutants, theorems, hazards, and for each
definition the source lines it models.

Contents: [inventory](#inventory), [modules](#modules-and-how-they-correspond-to-the-code),
[runs and bounds](#runs-bounds-and-what-they-show),
[fairness](#fairness), [proofs](#proofs), [findings](#findings),
[what is not modelled](#what-is-not-modelled), [plan](#plan).

## Inventory

| part | state it keeps | operations | what makes it correct |
|---|---|---|---|
| `AurCodeRoundRobinQueue` (`common_algorithm.h`) | ring memory, read and write position | write bytes or one code, copy, remove, take one code | behaves as a bounded FIFO of bytes; full and empty are never confused |
| KCP (`ikcp.c`, `ikcp.h`) | send and receive queues and buffers, sequence numbers, announced window, acknowledgement list, timers | `ikcp_send`, `ikcp_recv`, `ikcp_input`, `ikcp_flush` (from `ikcp_update`) | the peer reads what was sent, in order, once; windows kept; a closed window opens again |
| `ConnectionManager` (`network_connection_manager.*`) | status, transport, conv, KCP status, four ring queues, one KCP, the two connections | `ChangeAddress`, `ConnectLogicServer`, `ReconnectLogicServer`, `CloseLogicConnect`, `SendOneCode`, `ReceiveOneCode` | the session belongs to the server asked for, packets stay whole, the handshake completes, codes arrive |
| `TcpConnection` (`tcp_connection.*`) | socket, connection status, target address | connect, reconnect, close, send, receive | one stream per socket; the end of a stream is noticed |
| `UDPSession`, `UdpConnection` (`udp_*.{cpp,h}`) | one descriptor | connect, close, read, send | uses and closes no descriptor but its own, leaks none |
| `Socket`, `SocketSet`, addresses (`connection.*`) | descriptor, blocking flag | wrappers of system calls | a descriptor `select` cannot watch is refused; closing forgets the descriptor |
| `CCodeEngine` (`common_codeengine.*`) | none | encode and decode integers, strings, memory | decode is the inverse of encode |
| helpers (`common_*.h`, `config.h`) | none | strings, time, platform macros | |

How they interact. The application calls `SendOneCode` and `ReceiveOneCode`.
A code (a length prefix of four bytes and a body) goes through `m_send_queue`
to `ikcp_send`; segments come out of `ikcp_flush` through the callbacks
`KcpCanOutput` and `KcpOutput`, which write a datagram, or, over TCP, append
to `m_un_send_queue`, from where `SendData` writes what the socket takes.
What is read from the socket goes to `m_un_receive_queue`, is cut into packets
by `ReceiveData`, and is given to `ikcp_input`; `ikcp_recv` fills
`m_receive_queue`, from where codes are taken. Before that the client sends a
six-byte key and a request, and the server answers with the conversation
number (conv). Without a conv nothing passes through KCP's output.

The hard parts: a network that loses, repeats, delays and reorders; TCP reads
and writes that end anywhere; connecting that fails or succeeds late;
reconnections and changes of transport and address between any two steps;
queues and windows that run full. There are no threads: one thread makes all
calls, and interleaving is between that thread, the network and the server.
Nothing is persistent. The list of hazards with their lines is in
`PROJECT.json`.

## Modules and how they correspond to the code

| module | what it is |
|---|---|
| `ByteFifo` | abstract: a bounded FIFO of bytes, with codes |
| `RoundRobinQueue` | the ring, one action per public method; implements `ByteFifo` |
| `ReliableStream` | abstract: each end reads a prefix of what the other wrote |
| `Segments` | how `ikcp_send` cuts a stream; used by `Kcp` and `CodeChannel` |
| `Kcp` | two endpoints of `ikcp.c` and a network; implements `ReliableStream` |
| `KcpFlush` | `ikcp_flush` over TCP, byte by byte, with `KcpCanOutput`, `KcpOutput`, `SendData` |
| `KcpTimer` | the clock, `ikcp_update`, the round-trip estimator, the retransmission timer |
| `CodeChannel` | a code from `SendOneCode` to `ReceiveOneCode` through four bounded queues |
| `Connection` | `ConnectionManager`'s session over `TcpConnection` and `UdpConnection`, servers and network |
| `Descriptors` | the descriptors the two transports hold, and the process's descriptor table |
| `*Proofs` | proofs about the module named |
| `MC*` | values of constants for TLC, fairness and liveness properties |

The modules about KCP divide one program by question. `Kcp` has two ends and a
network, but leaves open when a timer runs out and when a flush is refused;
`KcpFlush` has the bytes that decide when it is refused, of one end;
`KcpTimer` has the clock that decides what is due, for one segment;
`CodeChannel` takes the stream between the ends as `Kcp` shows it to be and
has the queues around it. Each states at its head what it leaves to the others.

**RoundRobinQueue.** Variables are the fields of the class plus `ret`, what
the last call returned and copied. `m_szDataBuffer` starts with any contents,
as `new char[]` leaves it. Bytes are digits below `Base` (256 in the code), so
that the length prefix keeps its meaning with two-valued bytes. Every write is
one or two `memcpy`s, modelled by where each byte lands.

**Segments.** Payloads are pairs `<<lo, hi>>`, the bytes lo+1 to hi of the
stream that the sender was given, so any loss, repetition or change of order
of bytes shows. `Queued` is `ikcp_send`: the last queued segment is extended,
the rest is cut. `ikcp_send` cannot refuse: `max_client_pkg_size` is 64000
bytes, less than the 255 segments of 360 bytes it allows.

**Kcp.** Both ends run the same code, set up as `NewKcp` does: stream mode,
`nocwnd`, window 64/64, MTU 384, `nodelay`. `Send` is `FlushSendDataToKcp`
with `ikcp_send`. `Flush` is all of `ikcp_flush`: acknowledgements, probe,
window announcement, move from `snd_queue` to `snd_buf`, first and repeated
transmissions, with one `una` and `wnd` for all. `FlushRefused` is its early
returns over TCP: at an acknowledgement (`FlushStopsAtAck`: those encoded and
not put out are lost, the rest is kept) or at the probe or announcement
(`FlushStopsAtProbe`: the list is empty by then). A refusal in the data loop is
a flush in which less is due. `Input` is `ikcp_input` for one segment, `Recv`
is `ikcp_recv` for any number of segments that happens to fit. `hist` and
`delivered` are history variables.

Abstractions: which segments a timer or fast resend makes due is a choice, as
is whether the probe timer has run out, so every timing the code can have is
allowed, and more. Segments of one datagram travel apart, which also allows
more. The peer is assumed to run the same `ikcp.c`; the server's source is not
here. Sequence numbers do not wrap; `NumbersStayClose` is what makes
`_itimediff` right where they do.

**KcpFlush.** One iteration of a loop of `ikcp_flush` is one step, `step` says
where it is. Before each segment `KcpCanOutput` is asked for the segment and
what is in the buffer (`Room`); it may call `SendData` (`Cleared`), and the
socket takes any number of bytes. `Fits` encodes, putting the buffer out first
if it would pass a datagram; `Abandon` is an early return that forgets the
buffer. Which segments are due and how many the window admits are choices.
`put`, `lost`, `held`, `times`, `owed` and `given` are history. Between flushes
acknowledgements are asked for, probes arrive, segments are released, the
socket drains.

**KcpTimer.** `Clock` is `gettimeofday` modulo `ClockSize` (2^32 ms); `zero` is
its setting, which `SetClock` changes. `Update` is `ConnectionManager::Update`:
it reads acknowledgements first, with `kcp->current` still that of the last
call (`Measured`), then `ikcp_update` (`Started`, `Slap`, `NextFlush`), then
the part of `ikcp_flush` that sets `resendts` and `rto` (`Timed`, `Overtaken`).
`UpdateUnready` is `Update` before there is a conv. One segment is outstanding
at a time; whether others overtake it, whether `KcpCanOutput` refuses it, and
whether its acknowledgement arrives, late or never, are choices. So is whether
the flush comes to it at all: over TCP `ikcp_flush` returns before its data loop
when an acknowledgement, a probe or an announcement is refused (lines 951, 997
and 1014), and leaves the loop at an earlier segment that is (1107). The history
field `missed` says that the last flush did so. A full `m_un_send_queue` can make
flush after flush miss a segment, so that one that is due waits for as long as
the queue is full: `NeverOverdue` speaks of a segment the last flush came to,
which it then leaves neither untried nor overdue, whatever was missed before.
One acknowledgement is in flight at a time; it may be read again in later calls
of `Update`, once in each. The window probe's back-off is left out, and the
estimator's sums are unbounded where the code has `int32_t`, which overflows
from a `rx_srtt` of three days on. `Signed` is the conversion of a `uint32_t` to
`int32_t`, in `_itimediff` and in `GetDistanceLastReceiveTime`: from half the
clock on, 24 days after the last packet, the latter is negative, so
`DistanceTrue` speaks of less.

**CodeChannel.** One way, from an end that sends to one that receives.
`SendOneCode` flushes, writes the code or ends the session, flushes, and
updates, as the code does; `Updated` is `Update` as the sender sees it, where
`ikcp_update` may move any number of segments that the window admits, or none
(it may not be time, or refused). `flight` holds what has left `snd_queue`;
segments arrive in order, once, as `Kcp` shows. `ReceiverUpdate` is `Update` as
the receiver sees it: segments arrive while `rcv_wnd` admits them, and
`ikcp_recv` moves as many whole segments as `m_receive_queue` has room for.
`ReceiveOneCode` is a call in steps, `reading` while it is in its loop, since
segments arrive between two iterations. A code is its length and whether its
first bytes hold that length; `WriteOneCode` refuses one that is malformed (no
longer than the prefix, or with another length in it) or too large, for good or
just now, and `SendOneCode` then ends the session: `refused` is the code that
did. `ends` remembers where in the stream codes end.

`connected` stands for the two guards at `network_connection_manager.cpp:356-359`
and `told` for the third. A call that finds the session unconnected returns 0, and
one that was told to exit -1, whatever is in `m_receive_queue`; neither changes
anything, so the model has no step for them. Both may come about in any
`Update`, behind segments that arrive in it: the server may send codes, close or
order to exit, and all of it is read at once. The call that is under way then
still looks for a code, so `ZeroMeansNone` speaks of the calls that got past the
guards; codes left over stay in `m_receive_queue`, and `AllReceived` says that they
are returned once the application has reconnected (`ReconnectLogicServer`). What
was on the way then is sent again by the peer, as in `Kcp`, so `flight` stays. The
module is about one session: `ChangeAddress`, which makes a new KCP, and
`CloseLogicConnect` are in `Connection`.

**Connection.** One action per public call, and `LateConnect` and
`ServerCloses` for the network. A call includes the `Update` it makes: without
a conv send then receive, with one receive, let KCP output, send. The bytes in
`m_un_send_queue` are items (the key, a request, a segment), each with two
halves between which TCP may cut; `m_un_receive_queue` is empty, holds the
first half of a packet, or holds garbage: the second half of one whose first
is lost. A socket remembers which server it leads to, whether that server has
received a request, whether the stream read or written stops inside a packet,
whether it began with one key, whether `Connect` was called on it while it was
open and TCP alone was in use (`kept`), and whether `ChangeAddress` was called
while it was open (`left`). `m_conv` is
identified with the server that assigned it. The choices of
`TcpConnection::Connect` are: connected within the timeout, still pending when
it ran out, refused; on a socket kept, the select succeeds or not and up to ten
bytes are read and dropped. One `Update` handles at most one packet;
`ReceiveOneCode`'s loop is several. The application has called `ChangeAddress`
once (`SendOneCode` before it dereferences a null `m_kcp`).
`m_use_udp_inlogic` is not initialised by the constructor; `Init` takes any
allowed pair, as set by the application.

Two kinds of TCP sockets need a word. One that TCP alone `kept` over a
reconnection is finding 1. One that `ChangeAddress` `left` open, as it does to every
socket (`network_connection_manager.cpp:74-85`), goes on leading to the old server,
and `TcpConnection::Connect` uses it on if it is not in error and nobody has
closed it first. `ConnectLogicServer` does, `ReconnectLogicServer` does not when only
TCP is in use or an attempt over UDP comes to nothing. The model has all of it,
for no guard in the code forbids it, and TLC shows what comes of it: an answer of the old server gives the new session a conv, half a
packet of the old session is completed by the new one, a second key goes out on the
stream, and with UDP in use the TCP socket stays open behind it. The properties say
what holds in spite of that. `SessionOfTarget`: a conv always comes from the server
last asked for, also right after the address was changed with sockets open and
answers on the way, unless it comes over a TCP socket left open. `TcpOnlyInUse`
makes the same exception; `FramesAligned` and `KeyFirst` are about sockets neither
kept nor left. The repository does not say that the application must close
before it changes the address, nor that it need not, so this is recorded as a
hazard and not as a finding.

**Descriptors.** The process's descriptor table is a function; `socket()` takes
the lowest free one or fails. `m_sockfd` is UDP's, `m_iSocketID` TCP's.
`UdpConnects` and `UdpConnectFails` are `UDPSession::Connect` by how it ends;
wherever it fails, only the old socket is closed in the end. `Connect` is
`TcpConnection::Connect`: a socket in error is closed and made anew, one there
is kept, and an attempt that ends in error leaves its socket open. `Selectable`
is what `SocketSet::Add` lets through. Anything else in the process opens and
closes descriptors in between. `misused` remembers descriptors of others that
were read, written or closed.

## Runs, bounds, and what they show

| run | bounds | shows |
|---|---|---|
| `round_robin_queue` | 6 cells, bytes 0 and 1, nine chunks, lengths to 7 | every method agrees with `ByteFifo` at every pair of positions, codes across the end of the ring and codes that fill it included |
| `kcp_reorder` | A sends 3 bytes, windows 2, first window 1, 2 segments in flight each way, 1 acknowledgement waiting, duplication, no refused flushes | in order, nothing released early, windows kept, numbers close, numbers never go back, `ReliableStream` implemented; the inductive invariant |
| `kcp_progress` | 2 bytes, receive window 1, 2 in flight each way, refused flushes | liveness: everything is delivered, the window opens again |
| `kcp_flush` | queue of 6 bytes, datagram of 3, head of 1, segments of 2 and 1 bytes, 5 acknowledgements, 2 transmissions | a flush never ends the session; acknowledgements, `xmit` and the answer to a probe survive refusals as stated |
| `kcp_timer` | clock of 20 values started at 0 or 5 ms before its wrap, 9 ms, steps of 1 and 3 ms, interval 2, slack 3, rto 1 to 4, the clock set once by one of three amounts, flushes that end before the segment | flushes in time, nothing overdue that a flush came to, honest round trips, bounded rto, true distance below half the clock |
| `code_channel` | queues of 6 bytes, segments of 3, windows 2, a prefix of 1 byte, codes of 2 and 4 bytes, and refused ones: of 1 and 7 bytes and with a wrong prefix, 13 bytes in all, any number of reconnections | one stream through four queues, `snd_queue` packed and bounded, a good code refused only under pressure, no code overlooked, every code returned |
| `code_channel_wedge` | the same, codes of 2 and 6 bytes, 16 bytes in all | finding 3 |
| `connection_all` | two servers (with symmetry: nothing tells them apart), all four protocol pairs, at most 3 items queued | conv of the right server, no idle TCP socket, success has a socket, packets stay whole, one key; sockets left open or kept as said above |
| `connection_tcp_alone` | one server, TCP alone | finding 1 |
| `connection_handshake` | one server, UDP with or without TCP | liveness of the handshake |
| `descriptors` | 6 descriptors, all selectable but the largest | no leak, own sockets only, harm confined to descriptor 0 |
| `udp_descriptor_zero` | the same | finding 2 |

Why the bounds are enough. A ring of seven cells meets every relation of the
two positions, each split of a five-byte code, and the full queue. In `Kcp`
the interesting cases are a gap in what is received (needs a window of two and
two in flight), a number used twice (duplication), a full `rcv_queue` with
segments acknowledged behind it, a window announced as zero, and
an acknowledgement that is put out, lost or kept; each happens, which the
mutants show. (A third byte is needed for a number beyond the first window.
Refused flushes are in `kcp_progress`; the invariants are proved with them, and
with any number of acknowledgements waiting.) In `kcp_flush` a datagram takes
three acknowledgements, so buffers are put out early, and the queue does not
quite take two datagrams, so refusals happen at each place, with an empty and with a
filled buffer. In `kcp_timer` the wrap and the jump fall anywhere in the life
of a segment; runs are long enough for two retransmissions. In `code_channel` a
code is cut into two segments, two codes share one, and the largest code leaves
`m_receive_queue` room for a segment but one byte: the boundary of finding 3.
`connection_*` needs two servers to tell the old from the new, and two items to
have a key in front of a request. Two transports hold a descriptor each; three
free ones beside the standard streams let others open and close around them.

Deadlock is checked in every run but `code_channel*` and `kcp_timer`: a channel
ends when `MaxBytes` are sent and everything is returned or an end has exited,
and time ends at `MaxNow`.

For every property of a passing run there is a mutant: a plausible bug in one
definition (an operator next to it, with a comment), for which TLC then finds
the property violated. `PROJECT.json` pairs them.

## Fairness

`kcp_progress` (`MCKcp!FairSpec`). Weak fairness of `Flush` with everything
due: `Update` is called in a loop and the timers of all unacknowledged
segments run out (a segment's `rto` grows, but without bound only in time; the
probe interval is capped). Over TCP a refusal takes the place of that flush
as often as `m_un_send_queue` is full, so strong fairness is assumed of a flush
that gets past the acknowledgements (`SF` of `Flush(B, {}, TRUE)`): a socket
that never takes anything again is a dead connection. Weak fairness of `Recv`:
`ReceiveData` calls `ikcp_recv` in each `Update`. Strong fairness of the
delivery of each kind of segment: the network may lose any of them, but not all
of those that are sent again and again. Without that nothing can be promised.

`code_channel` (`CodeChannel!FairSpec`). Weak fairness of an `Update` of the
sender that moves a segment on (the window admits one, and `kcp_progress` is
why it leaves), of the loop of `ReceiveOneCode`, and of reconnecting: the two
applications go on calling, and the receiver's connects again when the connection
has ended. Strong fairness of `ReceiveOneCode` past its guards: the connection may
end again and again, but not before every single call. Strong fairness of an
iteration in which something arrives: `rcv_wnd` may be full in between.

`connection_handshake` (`MCConnection!FairSpec`). The application goes on
calling `SendOneCode`; strong fairness that a request sent again and again
arrives and is answered some time. While there is no usable connection, the
application reconnects (weak fairness of `Retry`), and one of the attempts succeeds
(strong fairness of a `Retry` that ends with a usable one). A session that uses a TCP
socket left open by `ChangeAddress` is excluded: its stream may stop inside a packet
or begin with two keys, and the server need not answer. Note
what is not assumed: `ReceiveOneCode` alone never asks again, so an
application that sends once and then only receives may wait for ever.

## Proofs

Each `*Proofs` module is checked by `tlapm` with no step left out. The only
assumptions are the named `ASSUME`s of the modules, which TLC evaluates, and
the one that `ZeroMeansNoCode` states of its own, on the size of codes.

**RoundRobinQueue.** `TypeOK`, `SizesAgree` and the refinement of `ByteFifo`,
for every length, base and set of chunks. The argument: the contents are the
cells from the read position on, as many as `GetUsedBufferSize` says; each
action takes them to what `ByteFifo` prescribes. Lemmas give `%` for sums of
two positions in closed form.

**Segments.** `SendKeepsTheStream`: if the queue holds a stretch of the stream
up to the byte sent next, with only its last segment short, then it does so
after `ikcp_send`, and is longer by at most the fragments of what was sent.
`PackedHoldsMuch`: n packed segments hold more than (n - 1) * mss bytes. The
second is an induction over n, done as a proof that there is no least
counterexample (lemma `Least`, from the well-foundedness of < on the naturals),
because the induction theorems of the library cannot be used.

**Kcp.** `IInv` is inductive. `InOrder` and `NothingLost` are not on their
own: one has to know that every copy of a segment (in `snd_buf`, in flight, in
`rcv_buf`) carries the payload its number got (`SendBufferGenuine`,
`InFlightTrue`, `ReceiveBufferGenuine`), that a una or an acknowledgement in
flight was true when it left and stays true because `Got` is monotonic
(`InFlightTrue`, `AcksTrue`), and the window bounds. From it follow `TypeOK`,
`InOrder`, `NothingLost`, `WindowsKept`, `NumbersStayClose` and the action
property `NeverGoesBack`, for all windows, segment sizes, bounds and any amount
of loss, duplication, reordering and refusal.

`Refinement` shows that this implements `ReliableStream`. `InOrder` speaks of
payloads and the abstract stream of bytes, so a second invariant, `StreamsCut`,
relates the two: the payloads that have a number, and those queued behind them,
are consecutive stretches of the stream given to `ikcp_send`, the queue is
packed, and `SegmentsProofs` says that `ikcp_send` keeps that. Then a prefix of
the payloads is a prefix of the bytes. `Send` is a write, `Recv` a read of the
bytes that come next, and every other action changes neither end of the stream.

**KcpTimer.** `TimerInv` says of each clock value the code stores which true
time it stands for: `ts_flush` a time yet to come, within an interval of the last
flush; `resendts` the last try plus `rto`, later than the last flush if that
came to the segment;
`current` the last `Update`; `m_last_active_time` the last packet. Each holds
until the clock is set (`jumps`); of `ts_flush` it also says what one setting
leaves: at most `Slack` from the first `Update` after it, for otherwise
`ikcp_update` starts afresh. That is what makes `FlushesInTime` inductive: the
property alone does not say when the next flush is due. The lemmas about `%`
end in `DiffOfClocks` (`_itimediff` of two times less than half a clock apart is
their distance, wrapped or not) and `DiffMoves` (any clock value is that of
some time near now, which is all one knows after the clock was set); no proof
after them but that of `DistanceTrue` mentions a remainder. From the invariant
follow `TypeOK`, `FlushesInTime`, `NeverOverdue`, `RttHonest` and
`DistanceTrue`, for every even size of the clock, every start and jump, runs of
any length (`MaxNow` is only a number) and any number of wraps and jumps.
`TimerAssumption` asks that `Update` is called at least every half clock, less
`Slack` and `Interval`: 24 days. What concerns an age, an `rto` or a round trip
that the clock is too small for is excluded in the properties themselves, as are
segments that the last flush did not come to and packets older than half the clock.
That a flush ends early costs `FlushesInTime` nothing: `ts_flush` moves on before
`ikcp_flush` is called.

**KcpFlush.** `NeverExits` rests on `RoomPromised`: what is in the buffer was
always asked for together with the segment encoded last, and the room asked
for does not shrink before the buffer is put out, because only the flush adds
to the queue. `AcksAccounted` needs that the list is ascending (no
acknowledgement twice) and `Filled`, that an empty buffer holds nothing.
`XmitTrue` and `AnswerKept` follow in the same invariant, for every size of
queue, datagram, head and segment.

**CodeChannel.** `Inv` says that the three queues of segments and `m_send_queue`
hold consecutive stretches of one stream, `snd_queue` is packed, and what the
receiver has taken ends where a code ends. `OneStream`, `SegmentsPacked`,
`SendQueueBounded`, `ExitsUnderPressure` and `TypeOK` follow from it with the
theorems of `SegmentsProofs`. For `ExitsUnderPressure` a well-formed code that
an empty `m_send_queue` could hold is refused only if the first flush left something
there, that is, found `snd_queue` full, and packed segments hold much
(`PackedHoldsMuch`). `ZeroMeansNone` holds if no code that `m_send_queue` can hold is larger
than `Capacity - Mss + 1`: then a complete code whose last segment is still in
`rcv_queue` would have fitted. Finding 3 shows that the condition is needed. Both
hold whatever becomes of the connection.

**Connection.** `CInv` adds to the properties where the sockets lead
(`SocketsOfTarget`: to the server last asked for, but for UDP sockets not in use and
TCP sockets left open, `Outlived`) and that a session the server has closed has no
TCP socket but one left open (`ClosedHasNoTcp`): a conv is only as good as the socket
its answer came over. `TcpOnlyInUse`, `SuccessHasSocket` and `TypeOK` follow, for any
number of servers, any protocols and any queue bound. `SessionOfTarget` is an action
property: from `CInv` each step either keeps conv and server, or gives up the conv, or
takes the conv from the socket in use (`ConvStep`). Nothing is assumed of the order
in which the application makes its calls.

`StreamInv` is inductive on top of `CInv`. It is `FramesAligned` and more than
`KeyFirst`: one has to know where the key may stand, which is first in the queue
of a stream on which nothing was written, nowhere else, and not in front of one
that has begun with it (`KeyLeads`). `FramesAligned` and `KeyFirst` follow for any
number of servers, and any calls that fail, arrive in parts or are repeated.

**Descriptors.** `NoLeak`, `HoldsItsSocket` and `HarmConfined` are inductive
together, for any number of descriptors and any limit of `select`: that a
transport closes only its own socket needs that it holds its own, and that no
other holds it.

Every invariant, action property and refinement that a passing run checks is
stated by a theorem. Only model-checked are the liveness properties
(`AllDelivered`, `WindowReopens`, `AllReceived`, `HandshakeCompletes`): they need
fairness and ENABLED, which are out of the prover's reach.

## Findings

1. *Reconnecting with TCP alone loses the packet boundary*
   (`network_connection_manager.cpp:175`). The queues are cleared but the socket
   is kept, so the second half of a packet may be read as the start of one,
   what the comment at `tcp_connection.cpp:51-52` warns of. Run
   `connection_tcp_alone`.
2. *Descriptor 0 after a failed UDP reconnection* (`udp_session.cpp:18`).
   `m_sockfd` is set to 0 instead of -1; on failure the session then reads,
   writes and closes descriptor 0. Run `udp_descriptor_zero`.
3. *A code near the capacity may never be returned*
   (`network_connection_manager.cpp:600`). `WriteOneCode` accepts codes of up to
   64000 bytes, but `ikcp_recv` moves whole segments only, and the segment with
   the end of such a code may not fit beside the rest of it. `GetOneCode` then
   waits "for left package" (`common_algorithm.h:74`) for ever. Codes of up to
   63641 bytes are safe. Run `code_channel_wedge`.

Two things the models show and no comment contradicts. Acknowledgements
encoded in a buffer that a refused flush abandons are lost (`lost` in
`KcpFlush`, lines 951 and 997 of `ikcp.c`), and the peer has to send the segments
again. `kcp_progress` shows that this is enough where the flush stops at a probe or an
announcement; with its one acknowledgement waiting it does not reach the return at
line 951 with others encoded before. (With two waiting and three segments in flight
TLC finds both liveness properties to hold as well, in 143,604 states; that
instance takes too long to be among the runs.) And a window probe that was
encoded in such a buffer is lost with it, until the probe timer runs out again.

## What is not modelled

`ikcp_check`, which nothing calls; the congestion window, switched off by
`NewKcp`; the back-off of the window probe, a choice in `Kcp`; `dead_link`,
which sets a field nothing reads; malformed packets, those `ikcp_input` refuses
included: the packets of the model are those the two ends make;
`m_kcp_buff_full`, set by a packet and read by the application only, and
`SetSignature`;
socket options and address parsing; the stray bit that `FD_SET` of -1 would
set after a failing `socket()`; an invalid target address, for which `Connect`
does nothing; the encoders of `CCodeEngine` but the length prefix: they are
conversions without state; string and time helpers; allocation failure;
logging.

## Plan

The ring, the stream, its flush and timers, the channel, the session and the
descriptors are modelled, and their safety is proved. What is left is the
packets `ReceiveData` cannot use (`package_len` above `KCP_MTU_LEN`, line 542), in
`Connection`: they are among the hazards no property covers yet.
