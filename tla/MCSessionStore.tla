--------------------------- MODULE MCSessionStore ---------------------------
(* Instances of SessionStore for TLC. *)
EXTENDS SessionStore, TLC

Symmetry == Permutations(Turn) \cup Permutations(Obj) \cup Permutations(Writer)
              \cup Permutations(Inode)
=============================================================================
