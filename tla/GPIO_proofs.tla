----------------------------- MODULE GPIO_proofs -----------------------------
(***************************************************************************)
(* Proofs about GPIO, for a table of any size, any nesting of polls and    *)
(* handlers, any failures of libgpiod.                                     *)
(***************************************************************************)
EXTENDS GPIO, TLAPS

Dirs   == {"sim", "asis", "in", "out", "released"}
Confs  == [mode : AllModes, dir : Dirs, wire : Levels]

\* What one pin's configuration must be for its cache to be true.
Truthful(p, c) ==
    /\ c.mode = "OUTPUT" /\ c.dir # "sim" => c.dir = "out" /\ status[p] = c.wire
    /\ c.dir = "out" => c.mode = "OUTPUT"

\* Every outcome of setPinMode is a configuration.
LEMMA ConfiguredType ==
    ASSUME TypeOK, NEW p \in Pins, NEW m \in AllModes, NEW c \in Configured(p, m)
    PROVE  c \in Confs
  <1>1. /\ mode[p] \in AllModes /\ dir[p] \in Dirs /\ wire[p] \in Levels
        /\ status[p] \in Levels
    BY DEF TypeOK, Dirs
  <1>2. Current(p) \in Confs
    BY <1>1 DEF Current, Confs
  <1>3. Direction(m) \in Dirs
    BY DEF Direction, Dirs
  <1>4. CASE dir[p] = "sim"
    <2>1. c = [Current(p) EXCEPT !.mode = m]
      BY <1>4 DEF Configured
    <2> QED
      BY <2>1, <1>2 DEF Confs
  <1>5. CASE dir[p] # "sim" /\ c \in Reconfigured(p, m)
    BY <1>1, <1>2, <1>3, <1>5 DEF Reconfigured, Confs
  <1>6. CASE dir[p] # "sim" /\ c \in Rerequested(p, m)
    BY <1>1, <1>3, <1>6 DEF Rerequested, Confs, Dirs
  <1> QED
    BY <1>4, <1>5, <1>6 DEF Configured

\* So is every outcome of the promotion that writePin makes.
LEMMA PromotedType ==
    ASSUME TypeOK, NEW p \in Pins, NEW c \in Promoted(p)
    PROVE  c \in Confs
  <1>1. CASE c \in Configured(p, "OUTPUT")
    BY <1>1, ConfiguredType DEF AllModes
  <1>2. CASE c = Current(p)
    BY <1>2 DEF Current, Confs, TypeOK, Dirs
  <1> QED
    BY <1>1, <1>2 DEF Promoted

\* With libgpiod v2 a successful reconfiguration makes the cache true and a
\* failed one leaves it so.
LEMMA ConfiguredTruthful ==
    ASSUME TypeOK, CacheTrue, GPIOD_V = 2,
           NEW p \in Pins, NEW m \in AllModes, NEW c \in Configured(p, m)
    PROVE  Truthful(p, c)
  <1>1. Truthful(p, Current(p))
    BY DEF CacheTrue, Truthful, Current
  <1>2. CASE dir[p] = "sim"
    <2>1. c = [Current(p) EXCEPT !.mode = m]
      BY <1>2 DEF Configured
    <2>2. c.dir = "sim"
      BY <2>1, <1>2 DEF Current
    <2> QED
      BY <2>2 DEF Truthful
  <1>3. CASE dir[p] # "sim"
    <2>1. c \in Reconfigured(p, m)
      BY <1>3 DEF Configured
    <2>2. CASE c = Current(p)
      BY <2>2, <1>1
    <2>3. CASE c = [mode |-> m, dir |-> Direction(m),
                    wire |-> IF m = "OUTPUT" THEN status[p] ELSE wire[p]]
      BY <2>3 DEF Truthful, Direction
    <2> QED
      BY <2>1, <2>2, <2>3 DEF Reconfigured
  <1> QED
    BY <1>2, <1>3

\* A pin takes a configuration, the others keep theirs.
LEMMA BecomeType ==
    ASSUME TypeOK, NEW p \in Pins, NEW c \in Confs, Become(p, c)
    PROVE  /\ mode' \in [Pins -> AllModes]
           /\ dir' \in [Pins -> Dirs]
           /\ wire' \in [Pins -> Levels]
  <1>1. /\ c.mode \in AllModes /\ c.dir \in Dirs /\ c.wire \in Levels
    BY DEF Confs
  <1>2. /\ mode \in [Pins -> AllModes] /\ dir \in [Pins -> Dirs]
        /\ wire \in [Pins -> Levels]
    BY DEF TypeOK, Dirs
  <1> QED
    BY <1>1, <1>2 DEF Become

-----------------------------------------------------------------------------
(* The stack.                                                              *)

\* A prefix of a stack is a stack.
LEMMA PrefixFacts ==
    ASSUME NEW s \in Seq(Frames), NEW k \in 0 .. Len(s)
    PROVE  SubSeq(s, 1, k) \in Seq(Frames)
  OBVIOUS

\* The newest frame of a stack is a frame, and the stack without it a stack.
LEMMA TopFacts ==
    ASSUME NEW s \in Seq(Frames), s # <<>>
    PROVE  /\ s[Len(s)] \in Frames
           /\ SubSeq(s, 1, Len(s) - 1) \in Seq(Frames)
  OBVIOUS

\* The frame of a handler is a frame.
LEMMA IsrFrame ==
    ASSUME NEW p \in Pins
    PROVE  [fn |-> "isr", pin |-> p] \in Frames
  BY DEF Frames

\* refreshState keeps the types.
LEMMA RefreshType ==
    ASSUME TypeOK, NEW p \in Pins, NEW s \in Seq(Frames), Refresh(p, s)
    PROVE  TypeOK'
  <1>1. /\ status \in [Pins -> Levels] /\ told \in [Pins -> Levels]
        /\ stack \in Seq(Frames)
        /\ Level(p) \in Levels
    BY DEF TypeOK, Level
  <1>2. /\ mode' = mode /\ dir' = dir /\ wire' = wire
        /\ trigger' = trigger
    BY DEF Refresh, lineVars
  <1>3. stack' \in Seq(Frames)
    <2>1. CASE stack' = s
      BY <2>1
    <2>2. CASE stack' = Append(s, [fn |-> "isr", pin |-> p])
      BY <2>2, IsrFrame
    <2>3. CASE Unwind
      BY <2>3, <1>1, PrefixFacts DEF Unwind
    <2> QED
      BY <2>1, <2>2, <2>3 DEF Refresh
  <1>4. status' \in [Pins -> Levels]
    BY <1>1 DEF Refresh, pinVars
  <1>5. told' \in [Pins -> Levels]
    BY <1>1 DEF Refresh, pinVars
  <1> QED
    BY <1>2, <1>3, <1>4, <1>5 DEF TypeOK

-----------------------------------------------------------------------------
(* Type correctness.                                                       *)

\* The initial states have the types.
LEMMA TypeInit == Init => TypeOK
  BY DEF Init, TypeOK, Levels, AllModes

\* The steps that only move the stack keep the types.
LEMMA StackType ==
    ASSUME TypeOK, MainIdle \/ Delay \/ Wake \/ PollDone \/ IsrReturn
    PROVE  TypeOK'
  <1>1. UNCHANGED <<lineVars, pinVars, trigger>>
    BY DEF MainIdle, Delay, Wake, PollDone, IsrReturn
  <1>2. Poll \in Frames /\ [fn |-> "sleep", pin |-> 0] \in Frames
    BY GPIOAssumption DEF Poll, Frames, GPIOAssumption
  <1>3. stack \in Seq(Frames)
    BY DEF TypeOK
  <1>4. stack' \in Seq(Frames)
    <2>1. CASE MainIdle
      BY <2>1, <1>2 DEF MainIdle
    <2>2. CASE Delay
      BY <2>2, <1>2, <1>3 DEF Delay
    <2>3. CASE Wake \/ PollDone \/ IsrReturn
      BY <2>3, <1>3, TopFacts DEF Wake, PollDone, IsrReturn
    <2> QED
      BY <2>1, <2>2, <2>3
  <1> QED
    BY <1>1, <1>4 DEF TypeOK, lineVars, pinVars

\* In a poll the next pin of the table is a pin, and the frame that looks at the
\* one after it is a frame.
LEMMA PollFacts ==
    ASSUME TypeOK, stack # <<>>, Top.fn = "gpioIdle", Top.pin < NUM_GPIOS
    PROVE  /\ Top.pin \in Pins
           /\ [stack EXCEPT ![Len(stack)] = [@ EXCEPT !.pin = Top.pin + 1]]
                  \in Seq(Frames)
  <1>1. stack \in Seq(Frames) /\ Len(stack) \in 1 .. Len(stack)
    BY DEF TypeOK
  <1>2. Top \in Frames
    BY <1>1, TopFacts DEF Top
  <1>3. Top \in [fn : {"gpioIdle"}, pin : 0 .. NUM_GPIOS]
    BY <1>2 DEF Frames
  <1>4. Top.pin \in 0 .. NUM_GPIOS /\ NUM_GPIOS \in Nat
    BY <1>3, GPIOAssumption DEF GPIOAssumption
  <1>5. Top.pin \in Pins /\ Top.pin + 1 \in 0 .. NUM_GPIOS
    BY <1>4 DEF Pins
  <1>6. [Top EXCEPT !.pin = Top.pin + 1] \in Frames
    BY <1>3, <1>5 DEF Frames
  <1>7. [stack EXCEPT ![Len(stack)] = [@ EXCEPT !.pin = Top.pin + 1]]
            = [stack EXCEPT ![Len(stack)] = [Top EXCEPT !.pin = Top.pin + 1]]
    BY DEF Top
  <1>8. [stack EXCEPT ![Len(stack)] = [Top EXCEPT !.pin = Top.pin + 1]]
            \in Seq(Frames)
    BY <1>1, <1>6
  <1> QED
    BY <1>5, <1>7, <1>8

\* The poll of one pin keeps the types.
LEMMA PollPinType ==
    ASSUME TypeOK, PollPin
    PROVE  TypeOK'
  <1> DEFINE next == [stack EXCEPT ![Len(stack)] = [@ EXCEPT !.pin = Top.pin + 1]]
  <1>1. Top.pin \in Pins /\ next \in Seq(Frames)
    BY PollFacts DEF PollPin
  <1>2. CASE Refresh(Top.pin, next)
    BY <1>1, <1>2, RefreshType
  <1>3. CASE stack' = next /\ UNCHANGED <<lineVars, pinVars, trigger>>
    BY <1>1, <1>3 DEF TypeOK, lineVars, pinVars
  <1> QED
    BY <1>2, <1>3 DEF PollPin

\* Configuring, writing, attaching and binding keep the types.
LEMMA PinType ==
    ASSUME TypeOK, NEW p \in Pins,
           \/ \E m \in Modes : PinMode(p, m)
           \/ \E s \in Levels : DigitalWrite(p, s)
           \/ \E tr \in Triggers : AttachInterrupt(p, tr)
           \/ DetachInterrupt(p)
           \/ GpioBind(p)
           \/ LineChanges(p)
    PROVE  TypeOK'
  <1>1. /\ status \in [Pins -> Levels] /\ told \in [Pins -> Levels]
        /\ stack \in Seq(Frames)
        /\ trigger \in [Pins -> AllTriggers \cup {"none"}]
    BY DEF TypeOK
  <1>2. /\ Modes \subseteq AllModes /\ Triggers \subseteq AllTriggers
    BY GPIOAssumption DEF GPIOAssumption
  <1>3. ASSUME NEW m \in Modes, PinMode(p, m) PROVE TypeOK'
    <2>1. PICK c \in Configured(p, m) : Become(p, c)
      BY <1>3 DEF PinMode
    <2>2. c \in Confs
      BY <1>2, ConfiguredType
    <2>3. UNCHANGED <<pinVars, trigger, stack>>
      BY <1>3 DEF PinMode
    <2> QED
      BY <2>1, <2>2, <2>3, <1>1, BecomeType DEF TypeOK, pinVars, Dirs
  <1>4. ASSUME NEW s \in Levels, DigitalWrite(p, s) PROVE TypeOK'
    <2>1. trigger' = trigger
      BY <1>4 DEF DigitalWrite
    <2>2. CASE WriteLands(p, s)
      <3>1. PICK c \in Promoted(p) : Become(p, [c EXCEPT !.wire = s])
        BY <2>2 DEF WriteLands
      <3>2. [c EXCEPT !.wire = s] \in Confs
        BY PromotedType DEF Confs
      <3>3. /\ status' \in [Pins -> Levels] /\ told' \in [Pins -> Levels]
            /\ stack' \in Seq(Frames)
        BY <2>2, <1>1 DEF WriteLands
      <3> QED
        BY <2>1, <3>1, <3>2, <3>3, <1>1, BecomeType DEF TypeOK, Dirs
    <2>3. CASE WriteThrows(p)
      <3>1. PICK c \in Promoted(p) : Become(p, c)
        BY <2>3 DEF WriteThrows
      <3>2. c \in Confs
        BY PromotedType
      <3>3. stack' \in Seq(Frames)
        BY <2>3, <1>1, PrefixFacts DEF WriteThrows, Unwind
      <3>4. UNCHANGED pinVars
        BY <2>3 DEF WriteThrows
      <3> QED
        BY <2>1, <3>1, <3>2, <3>3, <3>4, <1>1, BecomeType
        DEF TypeOK, pinVars, Dirs
    <2> QED
      BY <1>4, <2>2, <2>3 DEF DigitalWrite
  <1>5. ASSUME NEW tr \in Triggers, AttachInterrupt(p, tr) PROVE TypeOK'
    BY <1>1, <1>2, <1>5 DEF AttachInterrupt, TypeOK, lineVars
  <1>6. CASE DetachInterrupt(p)
    BY <1>1, <1>6 DEF DetachInterrupt, TypeOK, lineVars, pinVars
  <1>7. CASE GpioBind(p)
    <2>1. [Current(p) EXCEPT !.mode = "INPUT_PULLUP", !.dir = "asis"] \in Confs
      BY DEF Current, Confs, TypeOK, Dirs, AllModes
    <2>2. /\ status' \in [Pins -> Levels] /\ told' \in [Pins -> Levels]
          /\ stack' \in Seq(Frames)
          /\ trigger' \in [Pins -> AllTriggers \cup {"none"}]
      BY <1>7, <1>1 DEF GpioBind, Levels
    <2> QED
      BY <1>7, <2>1, <2>2, BecomeType DEF GpioBind, TypeOK, Dirs
  <1>8. CASE LineChanges(p)
    BY <1>8 DEF LineChanges, TypeOK, pinVars, Levels
  <1> QED
    BY <1>3, <1>4, <1>5, <1>6, <1>7, <1>8

\* Every step keeps the types.
LEMMA TypeStep == TypeOK /\ [Next]_vars => TypeOK'
  <1> SUFFICES ASSUME TypeOK, [Next]_vars PROVE TypeOK'
    OBVIOUS
  <1>1. CASE MainIdle \/ Delay \/ Wake \/ PollDone \/ IsrReturn
    BY <1>1, StackType
  <1>2. CASE PollPin
    BY <1>2, PollPinType
  <1>3. ASSUME NEW p \in Pins, DigitalRead(p) PROVE TypeOK'
    BY <1>3, RefreshType DEF DigitalRead, TypeOK
  <1>4. CASE UNCHANGED vars
    BY <1>4 DEF TypeOK, vars, lineVars, pinVars
  <1> QED
    BY <1>1, <1>2, <1>3, <1>4, PinType DEF Next

\* The types are right in every reachable state.
THEOREM TypeCorrect == Spec => []TypeOK
  BY TypeInit, TypeStep, PTL DEF Spec

-----------------------------------------------------------------------------
(* The cache, with libgpiod v2.                                            *)

\* Nothing is promised of simulated pins and inputs that a step could break.
LEMMA CacheQuiet ==
    ASSUME CacheTrue, UNCHANGED <<lineVars, status>>
    PROVE  CacheTrue'
  BY DEF CacheTrue, lineVars

\* refreshState changes the cached level of inputs only.
LEMMA CacheRefresh ==
    ASSUME TypeOK, CacheTrue, NEW p \in Pins, NEW s, Refresh(p, s)
    PROVE  CacheTrue'
  <1>1. UNCHANGED lineVars
    BY DEF Refresh
  <1>2. CASE UNCHANGED pinVars
    BY <1>1, <1>2, CacheQuiet DEF pinVars
  <1>3. CASE mode[p] # "OUTPUT" /\ status' = [status EXCEPT ![p] = Level(p)]
    BY <1>1, <1>3 DEF CacheTrue, TypeOK, lineVars
  <1> QED
    BY <1>2, <1>3 DEF Refresh

\* A pin that takes a truthful configuration has a true cache.
LEMMA CacheBecome ==
    ASSUME TypeOK, CacheTrue, NEW p \in Pins, NEW c, Become(p, c),
           Truthful(p, c), UNCHANGED status
    PROVE  CacheTrue'
  BY DEF TypeOK, CacheTrue, Become, Truthful

\* The outcomes of the promotion in writePin are truthful.
LEMMA PromotedTruthful ==
    ASSUME TypeOK, CacheTrue, GPIOD_V = 2, NEW p \in Pins, NEW c \in Promoted(p)
    PROVE  Truthful(p, c)
  <1>1. CASE c \in Configured(p, "OUTPUT")
    BY <1>1, ConfiguredTruthful DEF AllModes
  <1>2. CASE c = Current(p)
    BY <1>2 DEF CacheTrue, Truthful, Current
  <1> QED
    BY <1>1, <1>2 DEF Promoted

\* A write that lands is driven and cached, one that throws changes neither.
LEMMA CacheWrite ==
    ASSUME TypeOK, CacheTrue, GPIOD_V = 2,
           NEW p \in Pins, NEW s \in Levels, DigitalWrite(p, s)
    PROVE  CacheTrue'
  <1>1. CASE WriteLands(p, s)
    <2>1. PICK c \in Promoted(p) : Become(p, [c EXCEPT !.wire = s])
      BY <1>1 DEF WriteLands
    <2> DEFINE w == [c EXCEPT !.wire = s]
    <2>2. Truthful(p, c) /\ c \in Confs
      BY PromotedTruthful, PromotedType
    <2>3. w.mode = c.mode /\ w.dir = c.dir /\ w.wire = s
      BY <2>2 DEF Confs
    <2>4. status' = [status EXCEPT ![p] = s]
      BY <1>1 DEF WriteLands
    <2>5. Become(p, w)
      BY <2>1
    <2>6. /\ w.mode = "OUTPUT" /\ w.dir # "sim" => w.dir = "out"
          /\ w.dir = "out" => w.mode = "OUTPUT"
      BY <2>2, <2>3 DEF Truthful
    <2> HIDE DEF w
    <2> QED
      BY <2>3, <2>4, <2>5, <2>6 DEF TypeOK, CacheTrue, Become
  <1>2. CASE WriteThrows(p)
    <2>1. PICK c \in Promoted(p) : Become(p, c)
      BY <1>2 DEF WriteThrows
    <2>2. UNCHANGED status
      BY <1>2 DEF WriteThrows, pinVars
    <2> QED
      BY <2>1, <2>2, PromotedTruthful, CacheBecome
  <1> QED
    BY <1>1, <1>2 DEF DigitalWrite

\* Every step keeps the cache true.
LEMMA CacheStep ==
    GPIOD_V = 2 /\ TypeOK /\ CacheTrue /\ [Next]_vars => CacheTrue'
  <1> SUFFICES ASSUME GPIOD_V = 2, TypeOK, CacheTrue, [Next]_vars
               PROVE  CacheTrue'
    OBVIOUS
  <1>1. CASE MainIdle \/ Delay \/ Wake \/ PollDone \/ IsrReturn
    BY <1>1, CacheQuiet DEF MainIdle, Delay, Wake, PollDone, IsrReturn, pinVars
  <1>2. CASE PollPin
    <2>1. CASE \E s : Refresh(Top.pin, s)
      BY <1>2, <2>1, PollFacts, CacheRefresh DEF PollPin
    <2>2. CASE UNCHANGED <<lineVars, pinVars, trigger>>
      BY <2>2, CacheQuiet DEF pinVars
    <2> QED
      BY <1>2, <2>1, <2>2 DEF PollPin
  <1>3. ASSUME NEW p \in Pins, DigitalRead(p) PROVE CacheTrue'
    BY <1>3, CacheRefresh DEF DigitalRead
  <1>4. ASSUME NEW p \in Pins, NEW m \in Modes, PinMode(p, m) PROVE CacheTrue'
    <2>1. PICK c \in Configured(p, m) : Become(p, c)
      BY <1>4 DEF PinMode
    <2>2. m \in AllModes
      BY GPIOAssumption DEF GPIOAssumption
    <2>3. UNCHANGED status
      BY <1>4 DEF PinMode, pinVars
    <2> QED
      BY <2>1, <2>2, <2>3, ConfiguredTruthful, CacheBecome
  <1>5. ASSUME NEW p \in Pins, NEW s \in Levels, DigitalWrite(p, s)
        PROVE  CacheTrue'
    BY <1>5, CacheWrite
  <1>6. ASSUME NEW p \in Pins,
               DetachInterrupt(p) \/ \E tr \in Triggers : AttachInterrupt(p, tr)
        PROVE  CacheTrue'
    BY <1>6, CacheQuiet DEF DetachInterrupt, AttachInterrupt, pinVars
  <1>7. ASSUME NEW p \in Pins, GpioBind(p) PROVE CacheTrue'
    <2>1. /\ mode' = [mode EXCEPT ![p] = "INPUT_PULLUP"]
          /\ dir' = [dir EXCEPT ![p] = "asis"]
          /\ wire' = [wire EXCEPT ![p] = wire[p]]
          /\ status' = [status EXCEPT ![p] = "HIGH"]
      BY <1>7 DEF GpioBind, Become, Current
    <2> QED
      BY <2>1 DEF TypeOK, CacheTrue
  <1>8. ASSUME NEW p \in Pins, LineChanges(p) PROVE CacheTrue'
    BY <1>8 DEF LineChanges, TypeOK, CacheTrue, pinVars
  <1>9. CASE UNCHANGED vars
    BY <1>9, CacheQuiet DEF vars, pinVars
  <1> QED
    BY <1>1, <1>2, <1>3, <1>4, <1>5, <1>6, <1>7, <1>8, <1>9 DEF Next

\* With libgpiod v2, whatever calls to it fail, mode and status of an output are
\* what the line is set to and driven at.
THEOREM CacheKept ==
    ASSUME GPIOD_V = 2
    PROVE  Spec => []CacheTrue
  <1>1. Init => TypeOK /\ CacheTrue
    BY TypeInit DEF Init, CacheTrue
  <1>2. TypeOK /\ CacheTrue /\ [Next]_vars => (TypeOK /\ CacheTrue)'
    BY TypeStep, CacheStep
  <1> QED
    BY <1>1, <1>2, PTL DEF Spec

-----------------------------------------------------------------------------
(* CHANGE handlers.                                                        *)

\* refreshState reports the change it finds.
LEMMA ReportRefresh ==
    ASSUME TypeOK, ChangeReported, NEW p \in Pins, NEW s, Refresh(p, s)
    PROVE  ChangeReported'
  <1>1. trigger' = trigger
    BY DEF Refresh
  <1>2. CASE UNCHANGED pinVars
    BY <1>1, <1>2 DEF ChangeReported, pinVars
  <1>3. CASE /\ status' = [status EXCEPT ![p] = Level(p)]
             /\ Fires(p, status[p], Level(p))
             /\ told' = [told EXCEPT ![p] = Level(p)]
    BY <1>1, <1>3 DEF ChangeReported, TypeOK
  <1>4. CASE /\ status' = [status EXCEPT ![p] = Level(p)]
             /\ ~Fires(p, status[p], Level(p))
             /\ told' = told
    BY <1>1, <1>4 DEF ChangeReported, TypeOK, Fires
  <1> QED
    BY <1>2, <1>3, <1>4 DEF Refresh

\* Every step keeps all changes reported.
LEMMA ReportStep == TypeOK /\ ChangeReported /\ [Next]_vars => ChangeReported'
  <1> SUFFICES ASSUME TypeOK, ChangeReported, [Next]_vars
               PROVE  ChangeReported'
    OBVIOUS
  <1>1. CASE UNCHANGED <<pinVars, trigger>>
    BY <1>1 DEF ChangeReported, pinVars
  <1>2. CASE MainIdle \/ Delay \/ Wake \/ PollDone \/ IsrReturn
    BY <1>1, <1>2 DEF MainIdle, Delay, Wake, PollDone, IsrReturn
  <1>3. CASE PollPin
    <2>1. CASE \E s : Refresh(Top.pin, s)
      BY <1>3, <2>1, PollFacts, ReportRefresh DEF PollPin
    <2>2. CASE UNCHANGED <<lineVars, pinVars, trigger>>
      BY <2>2, <1>1
    <2> QED
      BY <1>3, <2>1, <2>2 DEF PollPin
  <1>4. ASSUME NEW p \in Pins, DigitalRead(p) PROVE ChangeReported'
    BY <1>4, ReportRefresh DEF DigitalRead
  <1>5. ASSUME NEW p \in Pins,
               LineChanges(p) \/ \E m \in Modes : PinMode(p, m)
        PROVE  ChangeReported'
    BY <1>1, <1>5 DEF LineChanges, PinMode
  <1>6. ASSUME NEW p \in Pins, NEW s \in Levels, DigitalWrite(p, s)
        PROVE  ChangeReported'
    <2>1. CASE WriteLands(p, s)
      BY <1>6, <2>1 DEF DigitalWrite, WriteLands, ChangeReported, TypeOK
    <2>2. CASE WriteThrows(p)
      BY <1>1, <1>6, <2>2 DEF DigitalWrite, WriteThrows
    <2> QED
      BY <1>6, <2>1, <2>2 DEF DigitalWrite
  <1>7. ASSUME NEW p \in Pins, NEW tr \in Triggers, AttachInterrupt(p, tr)
        PROVE  ChangeReported'
    BY <1>7 DEF AttachInterrupt, ChangeReported, TypeOK
  <1>8. ASSUME NEW p \in Pins, DetachInterrupt(p) PROVE ChangeReported'
    BY <1>8 DEF DetachInterrupt, ChangeReported, TypeOK, pinVars
  <1>9. ASSUME NEW p \in Pins, GpioBind(p) PROVE ChangeReported'
    BY <1>9 DEF GpioBind, ChangeReported, TypeOK
  <1>10. CASE UNCHANGED vars
    BY <1>1, <1>10 DEF vars
  <1> QED
    BY <1>2, <1>3, <1>4, <1>5, <1>6, <1>7, <1>8, <1>9, <1>10 DEF Next

\* No change of a cached level escapes a CHANGE handler.
THEOREM ChangesReported == Spec => []ChangeReported
  <1>1. Init => TypeOK /\ ChangeReported
    BY TypeInit DEF Init, ChangeReported
  <1>2. TypeOK /\ ChangeReported /\ [Next]_vars => (TypeOK /\ ChangeReported)'
    BY TypeStep, ReportStep
  <1> QED
    BY <1>1, <1>2, PTL DEF Spec

\* A refresh on a stack as deep as the present one runs at most the handler of
\* its own pin, a CHANGE handler for a level that was not told yet.
LEMMA RunRefresh ==
    ASSUME TypeOK, ChangeReported, NEW p \in Pins, NEW q \in Pins,
           NEW s \in Seq(Frames), Len(s) = Len(stack), Refresh(q, s),
           Runs(p), trigger[p] = "CHANGE"
    PROVE  told'[p] # told[p]
  <1>1. stack \in Seq(Frames) /\ Level(q) \in Levels
    BY DEF TypeOK, Level
  <1>2. ~Unwind
    <2>1. ASSUME NEW k \in 0 .. Len(stack), stack' = SubSeq(stack, 1, k)
          PROVE  FALSE
      <3>1. Len(SubSeq(stack, 1, k)) = k
        BY <1>1
      <3> QED
        BY <2>1, <3>1, <1>1 DEF Runs
    <2> QED
      BY <2>1 DEF Unwind
  <1>3. stack' # s
    BY <1>1 DEF Runs
  <1>4. /\ stack' = Append(s, [fn |-> "isr", pin |-> q])
        /\ Fires(q, status[q], Level(q))
        /\ told' = [told EXCEPT ![q] = Level(q)]
    BY <1>2, <1>3 DEF Refresh
  <1>5. stack'[Len(stack')] = [fn |-> "isr", pin |-> q]
    BY <1>4
  <1>6. q = p
    BY <1>5 DEF Runs
  <1>7. status[p] # Level(p)
    BY <1>1, <1>4, <1>6 DEF Fires, Levels
  <1>8. told[p] = status[p] /\ told'[p] = Level(p)
    BY <1>4, <1>6 DEF ChangeReported, TypeOK
  <1> QED
    BY <1>7, <1>8

\* No step runs a CHANGE handler for a level that was told already.
LEMMA RunStep ==
    ASSUME TypeOK, ChangeReported, Next,
           NEW p \in Pins, Runs(p), trigger[p] = "CHANGE"
    PROVE  told'[p] # told[p]
  <1>1. stack \in Seq(Frames)
    BY DEF TypeOK
  <1>2. stack' # stack
    BY DEF Runs
  <1>3. ASSUME NEW k \in 0 .. Len(stack), stack' = SubSeq(stack, 1, k)
        PROVE  FALSE
    <2>1. Len(SubSeq(stack, 1, k)) = k
      BY <1>1
    <2> QED
      BY <2>1, <1>1, <1>3 DEF Runs
  <1>4. ~Wake /\ ~PollDone /\ ~IsrReturn
    <2>1. stack # <<>> => Len(stack) - 1 \in 0 .. Len(stack)
      BY <1>1
    <2> QED
      BY <2>1, <1>3 DEF Wake, PollDone, IsrReturn
  <1>5. ~MainIdle
    <2>1. <<Poll>>[Len(<<Poll>>)].fn = "gpioIdle"
      BY DEF Poll
    <2> QED
      BY <2>1 DEF MainIdle, Runs
  <1>6. ~Delay
    <2> DEFINE add == <<[fn |-> "sleep", pin |-> 0], Poll>>
    <2>1. Poll \in Frames /\ [fn |-> "sleep", pin |-> 0] \in Frames
      BY GPIOAssumption DEF Poll, Frames, GPIOAssumption
    <2>2. (stack \o add)[Len(stack \o add)] = Poll
      BY <1>1, <2>1
    <2>3. Poll.fn = "gpioIdle"
      BY DEF Poll
    <2> QED
      BY <2>2, <2>3 DEF Delay, Runs
  <1>7. CASE PollPin
    <2> DEFINE next == [stack EXCEPT ![Len(stack)] = [@ EXCEPT !.pin = Top.pin + 1]]
    <2>1. Top.pin \in Pins /\ next \in Seq(Frames)
      BY <1>7, PollFacts DEF PollPin
    <2>2. Len(next) = Len(stack)
      BY <1>1
    <2>3. CASE Refresh(Top.pin, next)
      BY <2>1, <2>2, <2>3, RunRefresh
    <2>4. CASE stack' = next
      BY <2>2, <2>4, <1>1 DEF Runs
    <2> QED
      BY <1>7, <2>3, <2>4 DEF PollPin
  <1>8. ASSUME NEW q \in Pins, DigitalRead(q) PROVE told'[p] # told[p]
    BY <1>1, <1>8, RunRefresh DEF DigitalRead
  <1>9. ASSUME NEW q \in Pins, NEW s \in Levels, DigitalWrite(q, s) PROVE FALSE
    <2>1. ~Unwind
      BY <1>3 DEF Unwind
    <2> QED
      BY <2>1, <1>2, <1>9 DEF DigitalWrite, WriteLands, WriteThrows
  <1>10. ASSUME NEW q \in Pins,
                \/ \E m \in Modes : PinMode(q, m)
                \/ \E tr \in Triggers : AttachInterrupt(q, tr)
                \/ DetachInterrupt(q) \/ GpioBind(q) \/ LineChanges(q)
         PROVE  FALSE
    BY <1>2, <1>10
    DEF PinMode, AttachInterrupt, DetachInterrupt, GpioBind, LineChanges
  <1> QED
    BY <1>4, <1>5, <1>6, <1>7, <1>8, <1>9, <1>10 DEF Next

\* No edge runs a CHANGE handler twice, however polls, reads and handlers nest.
THEOREM RunsOnce == Spec => RunsOncePerChange
  <1>1. TypeOK /\ ChangeReported /\ [Next]_vars
            => [\A p \in Pins : Runs(p) /\ trigger[p] = "CHANGE"
                                => told'[p] # told[p]]_vars
    BY RunStep
  <1> QED
    BY <1>1, TypeCorrect, ChangesReported, PTL DEF Spec, RunsOncePerChange
=============================================================================
