---------------------------- MODULE MCVideoPath ----------------------------
(***************************************************************************)
(* VideoPath for TLC: streams with what start codes make hard.             *)
(***************************************************************************)
EXTENDS VideoPath

\* Everything the model knows to go wrong.
AnyFault == AllFaultKinds

\* DataLen is 5 and BufferSize 12: a buffer holds two units and a bit.
Streams == {
  <<>>, <<2>>,
  \* three units, one with a start code of four bytes behind it, one empty
  <<0, 0, 1, 2, 0, 0, 0, 1, 0, 0, 1, 2>>,
  \* a unit too long, and one that does not fit into the buffer
  <<0, 0, 1, 2, 0, 0, 1, 2, 2, 2>>,
  <<0, 0, 1, 2, 2, 2, 2, 2, 2, 2, 2, 2, 2>>,
  \* a preamble that leaves just room for a unit, and one that does not; a one
  \* that is no start code
  <<2, 2, 2, 2, 0, 0, 1, 0, 1, 0, 0, 1>>,
  <<2, 2, 2, 2, 2, 2, 2, 0, 0, 1, 2, 2, 2, 2>>}

\* Two packets of two bytes and the half of one, or five short reads.
Packets == {<<2, 1, 2, 0, 1>>}
=============================================================================
