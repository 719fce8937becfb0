------------------------------ MODULE MCSetup -------------------------------
(***************************************************************************)
(* Setup for TLC: the processes are model values.  One client may lose as  *)
(* many packets as it has tries, the others none.                          *)
(***************************************************************************)
EXTENDS SetupInvariant

Unlucky == CHOOSE c \in Clients : TRUE

OneUnlucky == [c \in Clients |-> IF c = Unlucky THEN MAX_TRIES ELSE 0]

NoFaults == [c \in Clients |-> 0]
=============================================================================
