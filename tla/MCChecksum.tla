----------------------------- MODULE MCChecksum -----------------------------
(***************************************************************************)
(* Bytes of two bits, sums of four: the arithmetic of in_cksum at a scale  *)
(* where every packet can be enumerated.                                   *)
(***************************************************************************)
EXTENDS Checksum

SomeSeqNums == {0, 1, 3, 4, 27, 64, 228, 255}
SomeFlags   == {1, 2, 3}
=============================================================================
