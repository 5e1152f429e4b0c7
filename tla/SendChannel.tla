----------------------------- MODULE SendChannel -----------------------------
(***************************************************************************)
(* What AsyncUDP promises to those who call writeTo: every accepted task   *)
(* is handed to the network at most once, one task at a time is            *)
(* outstanding, a task once done stays done, and after the channel is shut *)
(* nothing is accepted, handed over or finished any more.                  *)
(***************************************************************************)
CONSTANTS Tasks, NoTask

VARIABLES pending, outstanding, done, open

vars == <<pending, outstanding, done, open>>

Init ==
    /\ pending = {}
    /\ outstanding = NoTask
    /\ done = {}
    /\ open = TRUE

Accept(t) ==
    /\ open
    /\ t \notin pending \cup done \cup {outstanding}
    /\ pending' = pending \cup {t}
    /\ UNCHANGED <<outstanding, done, open>>

Finish ==
    /\ open
    /\ outstanding # NoTask
    /\ done' = done \cup {outstanding}
    /\ outstanding' = NoTask
    /\ UNCHANGED <<pending, open>>

\* Hand over the next task, once the outstanding one, if any, is done.  The
\* step that shuts the channel may still hand over one.
HandOver(t) ==
    /\ open
    /\ t \in pending
    /\ pending' = pending \ {t}
    /\ outstanding' = t
    /\ done' = done \cup ({outstanding} \ {NoTask})
    /\ open' \in BOOLEAN

Shut ==
    /\ open
    /\ open' = FALSE
    /\ UNCHANGED <<pending, outstanding, done>>

Next ==
    \/ \E t \in Tasks : Accept(t)
    \/ Finish
    \/ \E t \in Tasks : HandOver(t)
    \/ Shut

Spec == Init /\ [][Next]_vars
=============================================================================
