------------------------- MODULE MCRoundRobinQueue --------------------------
(***************************************************************************)
(* Binary bytes and six usable cells.  The chunks are raw pieces of one to *)
(* three bytes, a complete code of five bytes and one of six (which fills  *)
(* the queue), a code whose prefix lies, one of prefix length only, the    *)
(* empty string, and a code longer than the queue.                         *)
(***************************************************************************)
EXTENDS RoundRobinQueue

MCChunks ==
  { << >>, <<1>>, <<0, 1>>, <<0, 1, 0>>,
    <<0, 1, 0, 0>>,
    <<0, 1, 0, 1, 1>>,
    <<0, 1, 1, 1, 0>>,
    <<0, 1, 1, 0, 1, 0>>,
    <<0, 1, 1, 1, 0, 1, 1>> }
=============================================================================
