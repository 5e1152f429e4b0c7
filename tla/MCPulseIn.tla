----------------------------- MODULE MCPulseIn -----------------------------
(* Small instances of PulseIn.                                             *)
EXTENDS PulseIn

\* After its first call micros depends only on how far the clock and startUsec
\* are apart, so states with the same distance behave alike.
Shown ==
    <<LONG, startUsec = 0, IF startUsec = 0 THEN usecs ELSE micros,
      callVars, pinVars, since, lag>>
=============================================================================
