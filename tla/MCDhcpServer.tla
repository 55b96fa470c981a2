---------------------------- MODULE MCDhcpServer ----------------------------
(***************************************************************************)
(* Instances of DhcpServer for TLC.                                        *)
(***************************************************************************)
EXTENDS DhcpServer

CONSTANTS h1, h2

\* The first host may begin twice, or renew; the second has one transaction.
MCMaxXidOf == [h \in Hosts |-> IF h = h1 THEN 2 ELSE 1]
=============================================================================
