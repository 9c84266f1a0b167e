---------------------------- MODULE MCConnector ----------------------------
(* Connector for TLC. *)
EXTENDS Connector

Interchangeable == Permutations(Reqs)
=============================================================================
