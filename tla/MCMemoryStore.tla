--------------------------- MODULE MCMemoryStore ---------------------------
(* Instances of MemoryStore for TLC. *)
EXTENDS MemoryStore
=============================================================================
