------------------------------- MODULE MCFiles -------------------------------
(* Small instances of Files.                                               *)
EXTENDS Files, TLC

\* Handles, objects and paths are interchangeable.
Symmetry ==
    Permutations(Handles) \cup Permutations(Impls) \cup Permutations(Paths)
=============================================================================
