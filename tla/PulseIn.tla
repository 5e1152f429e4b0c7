------------------------------ MODULE PulseIn ------------------------------
(***************************************************************************)
(* pulseIn (ArduLinuxGPIO.h) and the clock it uses, micros (millis.cpp):   *)
(* three loops that read the pin and then the clock wait for the end of a  *)
(* pulse under way, for the start of the next one, and for its end.        *)
(*                                                                         *)
(* The clock and micros count modulo LONG, the range of unsigned long, and *)
(* start holds a uint32_t.  The pin changes, and time passes, between any  *)
(* two steps; readPin may run an ISR, which takes its time as well.        *)
(*                                                                         *)
(* Assumed of the system: between two steps of the program at most LAG     *)
(* microseconds pass, and the clock is not set during a call.              *)
(***************************************************************************)
EXTENDS Integers

CONSTANTS
    U32,       \* the number of values of uint32_t
    Longs,     \* those that unsigned long has, on one machine or another
    Origins,   \* what startUsec may be at first: 0, or taken by another call
    LAG,       \* bound on the time between two steps of the program
    HOLD,      \* the pin keeps a level at least that long
    Timeouts   \* what pulseIn is called with

ASSUME PulseInAssumption ==
    /\ U32 \in Nat \ {0} /\ \A w \in Longs : w \in Nat \ {0} /\ w % U32 = 0
    /\ \A w \in Longs : Origins \subseteq 0 .. w - 1
    /\ LAG \in Nat /\ HOLD \in Nat /\ HOLD > 2 * LAG
    /\ \A t \in Timeouts : t \in Nat /\ t + 7 * LAG < U32

VARIABLES
    LONG,       \* the values of unsigned long on this machine; never changes
    usecs,      \* the wall clock, in microseconds
    startUsec,  \* its value at the first call of micros, or 0
    start,      \* the local variable
    from,       \* what micros returned when start was last assigned
    timeout,    \* the argument
    loop,       \* which loop pulseIn is in, or at the assignment after it
    at,         \* it is to read "pin" or "clock"
    level,      \* the pin has the level asked for
    held,       \* for how long, up to HOLD for the other one
    width,      \* the length of the last pulse
    since,      \* the time since the last assignment to start
    gaveUp,     \* the loops that ended at the timeout
    lag         \* the time since the last step of the program, up to LAG

callVars == <<start, from, timeout, loop, at, gaveUp>>
pinVars  == <<level, held, width>>
clock    == <<LONG, usecs, startUsec>>
vars     == <<clock, callVars, pinVars, since, lag>>

Loops == {"leave", "rise", "pulse"}

Init ==
    /\ LONG \in Longs
    /\ usecs \in 0 .. LONG - 1
    /\ startUsec \in Origins
    /\ start = 0 /\ from = 0 /\ timeout = 0 /\ loop = "idle" /\ at = "pin"
    /\ level \in BOOLEAN /\ held = HOLD /\ width = 0
    /\ since = 0 /\ gaveUp = {} /\ lag = 0

-----------------------------------------------------------------------------
(* micros.                                                                 *)

\* Taken at the first call; a 0, which 32 bits may hold, is taken again.
Origin == IF startUsec = 0 THEN usecs ELSE startUsec

micros == (usecs - Origin) % LONG

\* The clock was read.
CallMicros == startUsec' = Origin /\ UNCHANGED <<LONG, usecs>>

Elapsed == (micros - start) % LONG

-----------------------------------------------------------------------------
(* pulseIn.                                                                *)

Assign ==
    /\ start' = micros % U32
    /\ from' = micros /\ since' = 0
    /\ CallMicros

Call(t) ==
    /\ loop = "idle" /\ loop' = "leave"
    /\ timeout' = t /\ gaveUp' = {}
    /\ Assign
    /\ lag' = 0
    /\ UNCHANGED <<at, pinVars>>

After(l) == CASE l = "leave" -> "rise"
              [] l = "rise"  -> "begin"
              [] l = "pulse" -> "return"

\* The pin is as the loop waits for it not to be.
Waits == IF loop = "rise" THEN ~level ELSE level

ReadPin ==
    /\ loop \in Loops /\ at = "pin"
    /\ IF Waits THEN at' = "clock" /\ UNCHANGED loop
                ELSE loop' = After(loop) /\ UNCHANGED at
    /\ lag' = 0
    /\ UNCHANGED <<clock, start, from, timeout, gaveUp, pinVars, since>>

Check(expired) ==
    /\ loop \in Loops /\ at = "clock"
    /\ at' = "pin"
    /\ IF expired
       THEN loop' = After(loop) /\ gaveUp' = gaveUp \cup {loop}
       ELSE UNCHANGED <<loop, gaveUp>>
    /\ CallMicros
    /\ lag' = 0
    /\ UNCHANGED <<start, from, timeout, pinVars, since>>

\* Mutant: the sum is compared, not the difference.
CheckClockSum == Check(micros >= (start + timeout) % LONG)

CheckClock == Check(Elapsed >= timeout)

\* Mutant: the time of the wait is measured with the pulse.
BeginKeepsStart ==
    /\ loop = "begin" /\ loop' = "pulse"
    /\ lag' = 0
    /\ UNCHANGED <<clock, start, from, timeout, at, gaveUp, pinVars, since>>

Begin ==
    /\ loop = "begin" /\ loop' = "pulse"
    /\ Assign
    /\ lag' = 0
    /\ UNCHANGED <<timeout, at, gaveUp, pinVars>>

\* The local variables are gone.
Leave ==
    /\ start' = 0 /\ from' = 0 /\ timeout' = 0 /\ gaveUp' = {}
    /\ since' = 0 /\ lag' = 0
    /\ UNCHANGED <<at, pinVars>>

\* The result is Elapsed.
Return ==
    /\ loop = "return" /\ loop' = "idle"
    /\ CallMicros
    /\ Leave

\* readPin throws.
Throw ==
    /\ loop \in Loops /\ at = "pin" /\ loop' = "idle"
    /\ Leave
    /\ UNCHANGED clock

-----------------------------------------------------------------------------
(* The world.                                                              *)

Tick ==
    /\ loop = "idle" \/ lag < LAG
    /\ usecs' = (usecs + 1) % LONG
    /\ IF loop = "idle" THEN UNCHANGED <<since, lag>>
                        ELSE since' = since + 1 /\ lag' = lag + 1
    /\ held' = IF ~level /\ held = HOLD THEN held ELSE held + 1
    /\ held' < U32
    /\ UNCHANGED <<LONG, startUsec, callVars, level, width>>

LevelChanges ==
    /\ held >= HOLD
    /\ level' = ~level /\ held' = 0
    /\ width' = IF level THEN held ELSE width
    /\ UNCHANGED <<clock, callVars, since, lag>>

Next ==
    \/ \E t \in Timeouts : Call(t)
    \/ ReadPin \/ CheckClock \/ Begin \/ Return \/ Throw
    \/ Tick \/ LevelChanges

Spec == Init /\ [][Next]_vars

-----------------------------------------------------------------------------
(* Safety.                                                                 *)

\* start holds what micros returned.  Where unsigned long is as wide as uint32_t
\* it always does, on 64 bits for the first 2^32 microseconds of the program.
Fits == from < U32

\* What pulseIn returns is right modulo 2^32, and right if start holds what micros
\* returned, also when micros wraps during the pulse; else it is 2^32 or more.
\* A pulse that began after the call is measured up to the time of three steps.
\* One for which the second loop gave up waiting is missed, or measured with a
\* step more: it may begin after start.
PulseMeasured ==
    [][loop = "return" /\ loop' = "idle" =>
         /\ Fits <=> Elapsed < U32
         /\ LET result == Elapsed % U32
            IN  \/ gaveUp \cap {"leave", "pulse"} # {}
                \/ gaveUp = {} /\ result - width \in -(3 * LAG) .. 3 * LAG
                \/ /\ gaveUp = {"rise"}
                   /\ result <= 2 * LAG \/ result - width \in -(2 * LAG) .. 4 * LAG]_vars

\* A loop does not give up before its timeout while start holds what micros
\* returned, and gives up at its first look at the clock when it does not.  No
\* call goes on for longer than some steps after the timeout.
TimesOut ==
    [][/\ at = "clock" /\ at' = "pin" =>
            IF Fits THEN loop' # loop => since >= timeout ELSE loop' # loop
       /\ loop' # "idle" => since' <= timeout' + 7 * LAG]_vars

=============================================================================
