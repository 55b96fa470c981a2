--------------------------- MODULE MCRudpDownload ---------------------------
(***************************************************************************)
(* Instances of RudpDownload for TLC.                                      *)
(***************************************************************************)
EXTENDS RudpDownload

CONSTANTS c1, c2, a1, a2

MCAddrOf == [c \in Clients |-> IF c = c1 THEN a1 ELSE a2]

\* Bodies of one segment, and of two.
MCOneSegment == [c \in Clients |-> 1]
MCTwoSegments == [c \in Clients |-> 2]
=============================================================================
