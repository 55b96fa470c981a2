---------------------------- MODULE MCRudpUpload ----------------------------
(***************************************************************************)
(* Instances of RudpUpload for TLC.                                        *)
(***************************************************************************)
EXTENDS RudpUpload

CONSTANTS c1, c2, a1, a2

\* One client with two segments; the second of two has a single one.
MCAmountOf == [c \in Clients |-> IF c = c1 THEN 2 ELSE 1]

\* Every client at an address of its own, or all on the default port.
MCAddrOf == [c \in Clients |-> IF c = c1 THEN a1 ELSE a2]
MCSamePort == [c \in Clients |-> a1]
=============================================================================
