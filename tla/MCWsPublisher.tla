--------------------------- MODULE MCWsPublisher ---------------------------
(***************************************************************************)
(* WsPublisher for TLC: connections differ in nothing but their identity.  *)
(***************************************************************************)
EXTENDS WsPublisher, TLC

Symmetry == Permutations(Conns)

=============================================================================
