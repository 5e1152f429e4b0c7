----------------------------- MODULE MCProgram -----------------------------
(* A small instance of Program.                                            *)
EXTENDS Program

CONSTANTS b13, b9600

\* 13 is what B9600 is on Linux.
MCTaken == [b \in {b13} |-> b9600]

MCCommandLines == {<<"--erase", "-d", "dir", "-e">>,
                   <<"-e", "-d", "-e">>, <<"--er">>, <<"--help", "-e">>}
MCEntries == {"sub", "sub/file"}
MCParent  == [e \in MCEntries |-> IF e = "sub" THEN "top" ELSE "sub"]
=============================================================================
