----------------------------- MODULE MCKcpFlush ------------------------------
(* A small instance of KcpFlush for TLC: a datagram takes three heads, the   *)
(* queue not quite two datagrams.                                            *)
EXTENDS KcpFlush

MCSize == <<2, 1>>
=============================================================================
