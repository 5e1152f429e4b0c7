----------------------------- MODULE MCAsyncUDP -----------------------------
(* Small instances of AsyncUDP.                                            *)
EXTENDS AsyncUDP, TLC

\* Tasks are interchangeable, and so are the application's threads.
Symmetry == Permutations(Tasks) \cup Permutations(AppThreads)
=============================================================================
