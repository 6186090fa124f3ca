------------------------------ MODULE MC_Lock ------------------------------
(* Instances of LockProtocol for TLC: attempts are interchangeable, and so  *)
(* are bases.                                                               *)
EXTENDS LockProtocol, TLC

Symmetry == Permutations(Attempt) \cup Permutations(Base)
=============================================================================
