------------------------------ MODULE MCSPIBus ------------------------------
(* Small instances of SPIBus.                                              *)
EXTENDS SPIBus, TLC

\* Threads, objects, paths and chips are each interchangeable.
Symmetry == UNION {Permutations(S) : S \in {Threads, Objects, Paths, Chips}}

\* Where liveness is checked and Symmetry cannot be used: every chip is opened
\* with the same frequency, which a transaction may ask for or not.
OneDefault ==
    LET default == CHOOSE f \in Speeds : TRUE
    IN  \A c \in Chips : defaultSpeed[c] \in {NoSpeed, default}
=============================================================================
