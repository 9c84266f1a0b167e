---------------------------- MODULE MCSendPath -----------------------------
(* SendPath under its most general client, for TLC. *)
EXTENDS SendPath

Interchangeable == Permutations(Data)
=============================================================================
