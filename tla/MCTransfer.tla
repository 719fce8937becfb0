----------------------------- MODULE MCTransfer -----------------------------
(***************************************************************************)
(* Transfer on small files.  A chunk of text is one byte, its number, so   *)
(* that chunks differ; Ragged has full chunks of two bytes, one that       *)
(* begins with a NUL byte, and a short last one.                           *)
(***************************************************************************)
EXTENDS TransferInvariant

Text(n) == [k \in 1 .. n |-> [j \in 1 .. BufSize |-> k]]

Text2  == Text(2)
Text3  == Text(3)
Text4  == Text(4)
Text9  == Text(9)
Ragged == <<<<1, 1>>, <<0, 2>>, <<3>>>>
=============================================================================
