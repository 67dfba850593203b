------------------------- MODULE MCTCPReaderWriter -------------------------
(***************************************************************************)
(* TCPReaderWriter with one or two workers and two or three connections.   *)
(***************************************************************************)
EXTENDS TCPReaderWriter, TLC

CONSTANTS w1, w2

MCWriters == {w1, w2}
WriterSymmetry == Permutations(MCWriters)
=============================================================================
