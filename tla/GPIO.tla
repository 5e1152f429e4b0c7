-------------------------------- MODULE GPIO --------------------------------
(***************************************************************************)
(* The pin table (ArduLinuxGPIO.h, ArduLinuxGPIO.cpp) and its libgpiod     *)
(* pins (linux/gpio/LinuxGPIOPin.cpp), as the one thread that runs setup,  *)
(* loop and the interrupt handlers uses them.                              *)
(*                                                                         *)
(* A pin keeps a cached level, status, and a cached mode.  Interrupts are  *)
(* polled: gpioIdle reads the pins that have an ISR and calls it when the  *)
(* trigger is met, and so does every digitalRead.  An ISR is application   *)
(* code, it may call the whole API: polls and ISRs nest, which the         *)
(* variable stack keeps.  The line changes its level whenever it likes.    *)
(*                                                                         *)
(* stack is empty while setup or loop runs.  Its frames, newest last:      *)
(*   gpioIdle  a poll, and the pin it looks at next                        *)
(*   isr       an interrupt handler, and the pin it runs for               *)
(*   sleep     the usleep of delay, entered when the poll above it is done *)
(*                                                                         *)
(* gpioBind is not called for a pin while an ISR of that pin runs.         *)
(***************************************************************************)
EXTENDS Naturals, Sequences

CONSTANTS
    NUM_GPIOS,  \* the slots of the pin table
    Modes,      \* the pin modes the application sets
    Triggers,   \* the triggers it attaches
    GPIOD_V,    \* the libgpiod version of the build, 1 or 2
    Faults,     \* the libgpiod calls that may fail: "read", "write", "config"
    MaxDepth    \* bound on the nesting of polls and ISRs

Levels      == {"LOW", "HIGH"}
AllModes    == {"INPUT", "INPUT_PULLUP", "INPUT_PULLDOWN", "OUTPUT"}
AllTriggers == {"LOW", "HIGH", "CHANGE", "FALLING", "RISING"}

ASSUME GPIOAssumption ==
    /\ NUM_GPIOS \in Nat
    /\ Modes \subseteq AllModes
    /\ Triggers \subseteq AllTriggers
    /\ GPIOD_V \in {1, 2}
    /\ Faults \subseteq {"read", "write", "config"}
    /\ MaxDepth \in Nat

Pins == 0 .. NUM_GPIOS - 1

VARIABLES
    mode,     \* per pin: the cached mode
    status,   \* per pin: the cached level
    trigger,  \* per pin: isrPinStatus, "none" when no ISR is attached
    dir,      \* per pin: "sim", or what the line is requested as
    wire,     \* per pin: the level of the line
    told,     \* history, per pin: the level the application was told of
    stack     \* the calls under way, see above

lineVars == <<mode, dir, wire>>
pinVars  == <<status, told>>
vars     == <<lineVars, pinVars, trigger, stack>>

Frames == [fn : {"gpioIdle"}, pin : 0 .. NUM_GPIOS]
          \cup [fn : {"isr"}, pin : Pins]
          \cup [fn : {"sleep"}, pin : {0}]

\* dir: "sim" before gpioBind, "asis" after it, "released" when a request
\* failed that libgpiod v1 makes after it gave the line back.
TypeOK ==
    /\ mode \in [Pins -> AllModes]
    /\ status \in [Pins -> Levels]
    /\ trigger \in [Pins -> AllTriggers \cup {"none"}]
    /\ dir \in [Pins -> {"sim", "asis", "in", "out", "released"}]
    /\ wire \in [Pins -> Levels]
    /\ told \in [Pins -> Levels]
    /\ stack \in Seq(Frames)

Init ==
    /\ mode = [p \in Pins |-> "INPUT_PULLUP"]
    /\ status = [p \in Pins |-> "HIGH"]
    /\ trigger = [p \in Pins |-> "none"]
    /\ dir = [p \in Pins |-> "sim"]
    /\ wire \in [Pins -> Levels]
    /\ told = [p \in Pins |-> "HIGH"]
    /\ stack = <<>>

-----------------------------------------------------------------------------
(* Reading a pin.                                                          *)

Top     == stack[Len(stack)]
AppRuns == stack # <<>> => Top.fn = "isr"

\* An exception goes to the loop or to an ISR that catches it.  One that
\* reaches main through its gpioIdle ends the program.
Unwind ==
    \E k \in 0 .. Len(stack) :
        /\ IF k = 0 THEN stack # <<>> => stack[1].fn # "gpioIdle"
                    ELSE stack[k].fn = "isr"
        /\ stack' = SubSeq(stack, 1, k)

\* readPinHardware: a SimGPIOPin returns its own status.
Level(p) == IF dir[p] = "sim" THEN status[p] ELSE wire[p]

\* Mutant: CHANGE does not compare the levels.
FiresUnchanged(p, old, new) ==
    \/ trigger[p] \in {"CHANGE", new}
    \/ trigger[p] = "RISING" /\ old = "LOW" /\ new = "HIGH"
    \/ trigger[p] = "FALLING" /\ old = "HIGH" /\ new = "LOW"

\* callISR
Fires(p, old, new) ==
    \/ trigger[p] = new
    \/ trigger[p] = "RISING" /\ old = "LOW" /\ new = "HIGH"
    \/ trigger[p] = "FALLING" /\ old = "HIGH" /\ new = "LOW"
    \/ trigger[p] = "CHANGE" /\ old # new

\* refreshState, called with the stack s: it caches the level first, and then
\* calls the ISR, on top of s.
Refresh(p, s) ==
    /\ \/ mode[p] = "OUTPUT" /\ stack' = s /\ UNCHANGED pinVars
       \/ /\ mode[p] # "OUTPUT"
          /\ dir[p] # "released"
          /\ status' = [status EXCEPT ![p] = Level(p)]
          /\ IF Fires(p, status[p], Level(p))
             THEN /\ stack' = Append(s, [fn |-> "isr", pin |-> p])
                  /\ told' = [told EXCEPT ![p] = Level(p)]
             ELSE stack' = s /\ UNCHANGED told
       \/ /\ mode[p] # "OUTPUT"
          /\ \/ dir[p] = "released"
             \/ dir[p] # "sim" /\ "read" \in Faults
          /\ Unwind
          /\ UNCHANGED pinVars
    /\ UNCHANGED <<lineVars, trigger>>

\* Mutant: digitalRead caches what it reads and leaves the ISR to the poll.
DigitalReadQuietly(p) ==
    /\ AppRuns
    /\ mode[p] # "OUTPUT" /\ dir[p] # "released"
    /\ status' = [status EXCEPT ![p] = Level(p)]
    /\ UNCHANGED <<lineVars, trigger, told, stack>>

DigitalRead(p) ==
    /\ AppRuns
    /\ Len(stack) < MaxDepth
    /\ Refresh(p, stack)

(* The poll.                                                               *)

Poll == [fn |-> "gpioIdle", pin |-> 0]

\* The main loop calls gpioIdle before every loop().
MainIdle ==
    /\ stack = <<>>
    /\ MaxDepth >= 2
    /\ stack' = <<Poll>>
    /\ UNCHANGED <<lineVars, pinVars, trigger>>

\* delay polls before it sleeps, if a real pin is bound.
Delay ==
    /\ AppRuns
    /\ Len(stack) + 3 <= MaxDepth
    /\ \E p \in Pins : dir[p] # "sim"
    /\ stack' = stack \o <<[fn |-> "sleep", pin |-> 0], Poll>>
    /\ UNCHANGED <<lineVars, pinVars, trigger>>

Wake ==
    /\ stack # <<>>
    /\ Top.fn = "sleep"
    /\ stack' = SubSeq(stack, 1, Len(stack) - 1)
    /\ UNCHANGED <<lineVars, pinVars, trigger>>

\* Mutant: the poll ends one pin early.
PollPinButLast ==
    /\ stack # <<>>
    /\ Top.fn = "gpioIdle"
    /\ Top.pin < NUM_GPIOS
    /\ LET p    == Top.pin
           next == [stack EXCEPT ![Len(stack)] = [@ EXCEPT !.pin = p + 1]]
       IN  \/ trigger[p] # "none" /\ p < NUM_GPIOS - 1 /\ Refresh(p, next)
           \/ /\ trigger[p] = "none" \/ p = NUM_GPIOS - 1
              /\ stack' = next
              /\ UNCHANGED <<lineVars, pinVars, trigger>>

\* refreshIfNeeded for the next pin of the table.
PollPin ==
    /\ stack # <<>>
    /\ Top.fn = "gpioIdle"
    /\ Top.pin < NUM_GPIOS
    /\ LET p    == Top.pin
           next == [stack EXCEPT ![Len(stack)] = [@ EXCEPT !.pin = p + 1]]
       IN  \/ trigger[p] # "none" /\ Refresh(p, next)
           \/ /\ trigger[p] = "none"
              /\ stack' = next
              /\ UNCHANGED <<lineVars, pinVars, trigger>>

PollDone ==
    /\ stack # <<>>
    /\ Top.fn = "gpioIdle"
    /\ Top.pin = NUM_GPIOS
    /\ stack' = SubSeq(stack, 1, Len(stack) - 1)
    /\ UNCHANGED <<lineVars, pinVars, trigger>>

IsrReturn ==
    /\ stack # <<>>
    /\ Top.fn = "isr"
    /\ stack' = SubSeq(stack, 1, Len(stack) - 1)
    /\ UNCHANGED <<lineVars, pinVars, trigger>>

-----------------------------------------------------------------------------
(* Configuring and writing a pin.                                          *)

Current(p) ==
    [mode |-> mode[p], dir |-> dir[p], wire |-> wire[p]]

Direction(m) == IF m = "OUTPUT" THEN "out" ELSE "in"

\* Mutant: the cached mode is not rolled back.
ReconfiguredNoRollback(p, m) ==
    {[mode |-> m, dir |-> Direction(m),
      wire |-> IF m = "OUTPUT" THEN status[p] ELSE wire[p]]}
    \cup (IF "config" \in Faults THEN {[Current(p) EXCEPT !.mode = m]} ELSE {})

\* libgpiod v2: one call reconfigures the line.  If it fails, the line is what
\* it was and the cached mode is rolled back.
Reconfigured(p, m) ==
    {[mode |-> m, dir |-> Direction(m),
      wire |-> IF m = "OUTPUT" THEN status[p] ELSE wire[p]]}
    \cup (IF "config" \in Faults THEN {Current(p)} ELSE {})

\* libgpiod v1: the line is released and requested anew.  The results are not
\* looked at, and the cached mode is the new one in any case.
Rerequested(p, m) ==
    {[mode |-> m, dir |-> Direction(m),
      wire |-> IF m = "OUTPUT" THEN status[p] ELSE wire[p]]}
    \cup (IF "config" \in Faults
          THEN {[mode |-> m, dir |-> "released", wire |-> wire[p]]}
          ELSE {})

\* setPinMode: what may become of the pin.
Configured(p, m) ==
    IF dir[p] = "sim" THEN {[Current(p) EXCEPT !.mode = m]}
    ELSE IF GPIOD_V = 2 THEN Reconfigured(p, m)
    ELSE Rerequested(p, m)

Become(p, c) ==
    /\ mode' = [mode EXCEPT ![p] = c.mode]
    /\ dir' = [dir EXCEPT ![p] = c.dir]
    /\ wire' = [wire EXCEPT ![p] = c.wire]

PinMode(p, m) ==
    /\ AppRuns
    /\ \E c \in Configured(p, m) : Become(p, c)
    /\ UNCHANGED <<pinVars, trigger, stack>>

\* writePin promotes the pin to an output, and drives the line before it caches
\* the level.  The driver rejects a write to a line that is not an output.
Promoted(p) ==
    IF dir[p] = "sim" \/ mode[p] = "OUTPUT" THEN {Current(p)}
                                            ELSE Configured(p, "OUTPUT")

WriteLands(p, s) ==
    /\ \E c \in Promoted(p) : /\ c.dir \in {"sim", "asis", "out"}
                              /\ Become(p, [c EXCEPT !.wire = s])
    /\ status' = [status EXCEPT ![p] = s]
    /\ told' = [told EXCEPT ![p] = s]
    /\ UNCHANGED stack

WriteThrows(p) ==
    /\ \E c \in Promoted(p) : /\ \/ c.dir \in {"in", "asis", "released"}
                                 \/ c.dir = "out" /\ "write" \in Faults
                              /\ Become(p, c)
    /\ Unwind
    /\ UNCHANGED pinVars

DigitalWrite(p, s) ==
    /\ AppRuns
    /\ WriteLands(p, s) \/ WriteThrows(p)
    /\ UNCHANGED trigger

AttachInterrupt(p, tr) ==
    /\ AppRuns
    /\ trigger' = [trigger EXCEPT ![p] = tr]
    /\ told' = [told EXCEPT ![p] = status[p]]
    /\ UNCHANGED <<lineVars, status, stack>>

DetachInterrupt(p) ==
    /\ AppRuns
    /\ trigger' = [trigger EXCEPT ![p] = "none"]
    /\ UNCHANGED <<lineVars, pinVars, stack>>

\* gpioBind(new LinuxGPIOPin(p, ...)): the pin that was there is destroyed.
GpioBind(p) ==
    /\ AppRuns
    /\ dir[p] = "sim"
    /\ \A i \in DOMAIN stack : stack[i] # [fn |-> "isr", pin |-> p]
    /\ Become(p, [Current(p) EXCEPT !.mode = "INPUT_PULLUP", !.dir = "asis"])
    /\ status' = [status EXCEPT ![p] = "HIGH"]
    /\ told' = [told EXCEPT ![p] = "HIGH"]
    /\ trigger' = [trigger EXCEPT ![p] = "none"]
    /\ UNCHANGED stack

\* The world outside drives a line that is not an output.
LineChanges(p) ==
    /\ dir[p] \notin {"sim", "out"}
    /\ wire' = [wire EXCEPT ![p] = IF @ = "LOW" THEN "HIGH" ELSE "LOW"]
    /\ UNCHANGED <<mode, dir, pinVars, trigger, stack>>

-----------------------------------------------------------------------------
Next ==
    \/ MainIdle \/ Delay \/ Wake \/ PollPin \/ PollDone \/ IsrReturn
    \/ \E p \in Pins :
          \/ DigitalRead(p)
          \/ \E m \in Modes : PinMode(p, m)
          \/ \E s \in Levels : DigitalWrite(p, s)
          \/ \E tr \in Triggers : AttachInterrupt(p, tr)
          \/ DetachInterrupt(p)
          \/ GpioBind(p)
          \/ LineChanges(p)

Spec == Init /\ [][Next]_vars

(***************************************************************************)
(* Fairness: the main loop comes back to gpioIdle, so setup, loop and the  *)
(* ISRs return, whatever they call meanwhile; usleep ends; a poll goes on. *)
(***************************************************************************)
FairSpec ==
    /\ Spec
    /\ SF_vars(MainIdle)
    /\ \A d \in 1 .. MaxDepth :
          /\ SF_vars(Len(stack) = d /\ IsrReturn)
          /\ WF_vars(Len(stack) = d /\ (PollPin \/ PollDone \/ Wake))

-----------------------------------------------------------------------------
(* Safety.                                                                 *)

\* The cached mode is the line's direction and, on an output, the cached level
\* is the level driven: refreshState never reads an output again, so a cache
\* that a rejected write or reconfiguration left wrong would stay wrong.  With
\* libgpiod 1 this holds only while no reconfiguration fails.
CacheTrue ==
    \A p \in Pins :
        /\ mode[p] = "OUTPUT" /\ dir[p] # "sim"
               => dir[p] = "out" /\ status[p] = wire[p]
        /\ dir[p] = "out" => mode[p] = "OUTPUT"

\* A CHANGE handler was run for every change of the cached level it was not
\* itself the writer of: a digitalRead, in the loop or in another pin's ISR,
\* never swallows an edge that the poll would have reported.
ChangeReported ==
    \A p \in Pins : trigger[p] = "CHANGE" => told[p] = status[p]

Runs(p) == /\ Len(stack') > Len(stack)
           /\ stack'[Len(stack')] = [fn |-> "isr", pin |-> p]

\* A CHANGE handler is run only for a level the application was not told of: one
\* that reads its own pin, or that another pin's handler interrupts, is not run
\* twice for one edge.
RunsOncePerChange ==
    [][\A p \in Pins : Runs(p) /\ trigger[p] = "CHANGE"
                       => told'[p] # told[p]]_vars

\* A line that keeps a level the cache does not have is noticed by the poll, as
\* long as an ISR is attached.
LevelObserved ==
    \A p \in Pins :
        trigger[p] # "none" /\ status[p] # Level(p)
        ~> status[p] = Level(p) \/ trigger[p] = "none" \/ mode[p] = "OUTPUT"

-----------------------------------------------------------------------------
(* What comments of the code say, and the code does not keep.              *)

\* LinuxGPIOPin.h:143-147, for both versions of libgpiod: after a failed
\* reconfiguration "the cached mode is rolled back", so that a mode is cached
\* only with the direction of the line.
ModeRolledBack ==
    [][\A p \in Pins : dir[p] # "sim" /\ mode'[p] # mode[p]
                       => dir'[p] = Direction(mode'[p])]_vars

=============================================================================
