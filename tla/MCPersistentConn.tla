-------------------------- MODULE MCPersistentConn --------------------------
(***************************************************************************)
(* Instances of PersistentConn for TLC.                                    *)
(***************************************************************************)
EXTENDS PersistentConn, TLC

\* Connections, requests and protocols are interchangeable; for safety only.
Symmetry == Permutations(Conns) \cup Permutations(Reqs) \cup Permutations(Protos)
=============================================================================
