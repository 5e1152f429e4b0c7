-------------------------- MODULE GpioLines_proofs --------------------------
(***************************************************************************)
(* Proofs about GpioLines, for any chips, labels, lines and pins, with     *)
(* libgpiod 1 and 2.                                                       *)
(***************************************************************************)
EXTENDS GpioLines, TLAPS

\* What the object under construction has, and what setPinMode gave back.
Stages ==
    /\ pc \notin {"found", "made"} => chip[New] = NoChip
    /\ pc = "found" => /\ chip[New] \in Chips
                       /\ label[New] \in {chip[New], Label[chip[New]]}
    /\ pc # "made" => line[New] = NoLine
    /\ pc = "released" => gpiod = 1 /\ line[n] \in Lines

\* PinKeepsLine, for the object under construction as well.
LinesKept ==
    \A h \in Holders : line[h] # NoLine =>
        /\ label[h] \in {line[h][1], Label[line[h][1]]}
        /\ gpiod = 2 => owner[line[h]] = h

Inv == TypeOK /\ Stages /\ NothingLeaks /\ LinesKept

\* The invariant holds initially.
LEMMA InvInit == Init => Inv
  <1> SUFFICES ASSUME Init PROVE Inv
    OBVIOUS
  <1>1. TypeOK
    <2>1. n \in Pins
      BY GpioLinesAssumption, Zenon DEF Init, GpioLinesAssumption
    <2> QED  BY <2>1 DEF Init, TypeOK
  <1> QED
    BY <1>1, GpioLinesAssumption
       DEF Init, Inv, Stages, NothingLeaks, LinesKept, Holders,
           GpioLinesAssumption, Lines

\* Every step keeps the types.
LEMMA TypeStep == Inv /\ [Next]_vars => TypeOK'
  <1> SUFFICES ASSUME TypeOK, Stages, [Next]_vars PROVE TypeOK'
    BY DEF Inv
  <1> USE GpioLinesAssumption DEF GpioLinesAssumption, TypeOK, Holders
  <1>1. CASE UNCHANGED vars
    BY <1>1 DEF vars, pins, call
  <1>2. ASSUME NEW p \in Pins, NEW l \in Asked, NEW w \in Offsets \cup BadLines,
               Construct(p, l, w)
        PROVE  TypeOK'
    BY <1>2 DEF Construct, Scanned
  <1>3. ASSUME NEW c, Opens(c) PROVE TypeOK'
    BY <1>3 DEF Opens
  <1>4. ASSUME Throw, UNCHANGED <<gpiod, present, owner>>,
               opened' \subseteq opened
        PROVE  TypeOK'
    BY <1>4 DEF Throw
  <1>5. CASE OpenNamed
    BY <1>5, <1>3 DEF OpenNamed
  <1>6. CASE OpenNamedFails
    BY <1>6, <1>4 DEF OpenNamedFails
  <1>7. ASSUME NEW c \in Chips, ScanHit(c) PROVE TypeOK'
    BY <1>7, <1>3 DEF ScanHit
  <1>8. ASSUME NEW c \in Chips, ScanMiss(c) PROVE TypeOK'
    <2>1. CASE Throw
      BY <2>1, <1>8, <1>4 DEF ScanMiss
    <2>2. CASE todo' = todo \ {c} /\ UNCHANGED <<pins, pc, want, n>>
      BY <2>2, <1>8 DEF ScanMiss, pins
    <2> QED  BY <2>1, <2>2, <1>8 DEF ScanMiss
  <1>9. CASE Refused
    BY <1>9, <1>4 DEF Refused, CloseChip
  <1>10. CASE Acquire
    BY <1>10 DEF Acquire, CloseChip, Stages, Lines
  <1>11. CASE Dies
    BY <1>11 DEF Dies
  <1>12. CASE GpioBind
    BY <1>12 DEF GpioBind, Replace, Moved, Passed, call
  <1>13. ASSUME NEW p \in Pins, SetPinMode(p) PROVE TypeOK'
    BY <1>13 DEF SetPinMode, Release, pins
  <1>14. CASE Rerequest
    BY <1>14 DEF Rerequest, pins, call, Stages
  <1>15. ASSUME NEW c \in Devices, DeviceChanges(c) PROVE TypeOK'
    BY <1>15 DEF DeviceChanges, pins, call
  <1>16. ASSUME NEW l \in Lines, OtherProcess(l) PROVE TypeOK'
    BY <1>16 DEF OtherProcess, pins, call
  <1> HIDE DEF TypeOK
  <1> QED
    BY <1>1, <1>2, <1>5, <1>6, <1>7, <1>8, <1>9, <1>10, <1>11, <1>12, <1>13,
       <1>14, <1>15, <1>16 DEF Next, CrashesOnNull, Restart

\* Every step keeps the stages of a construction.
LEMMA StagesStep == Inv /\ [Next]_vars => Stages'
  <1> SUFFICES ASSUME TypeOK, Stages, [Next]_vars PROVE Stages'
    BY DEF Inv
  <1> USE GpioLinesAssumption
      DEF GpioLinesAssumption, Stages, Holders
  <1>1. CASE UNCHANGED vars
    BY <1>1 DEF vars, pins, call
  <1>2. ASSUME NEW p \in Pins, NEW l \in Asked, NEW w \in Offsets \cup BadLines,
               Construct(p, l, w)
        PROVE  Stages'
    BY <1>2 DEF Construct, Scanned
  <1>3. ASSUME NEW c, Opens(c), label[New] \in {c, Label[c]}, line[New] = NoLine
        PROVE  Stages'
    BY <1>3 DEF Opens, TypeOK
  <1>4. ASSUME Throw, line[New] = NoLine PROVE Stages'
    BY <1>4 DEF Throw, TypeOK
  <1>5. CASE OpenNamed
    BY <1>5, <1>3 DEF OpenNamed
  <1>6. CASE OpenNamedFails
    BY <1>6, <1>4 DEF OpenNamedFails
  <1>7. ASSUME NEW c \in Chips, ScanHit(c) PROVE Stages'
    BY <1>7, <1>3 DEF ScanHit, First
  <1>8. ASSUME NEW c \in Chips, ScanMiss(c) PROVE Stages'
    <2>1. CASE Throw
      BY <2>1, <1>8, <1>4 DEF ScanMiss, First
    <2>2. CASE todo' = todo \ {c} /\ UNCHANGED <<pins, pc, want, n>>
      BY <2>2, <1>8 DEF ScanMiss, pins
    <2> QED  BY <2>1, <2>2, <1>8 DEF ScanMiss
  <1>9. CASE Refused
    BY <1>9, <1>4 DEF Refused
  <1>10. CASE Acquire
    BY <1>10 DEF Acquire
  <1>11. CASE Dies
    BY <1>11 DEF Dies
  <1>12. CASE GpioBind
    BY <1>12 DEF GpioBind, Replace, Moved, Passed, TypeOK, call
  <1>13. ASSUME NEW p \in Pins, SetPinMode(p) PROVE Stages'
    BY <1>13 DEF SetPinMode, Release, pins, TypeOK
  <1>14. CASE Rerequest
    BY <1>14 DEF Rerequest, pins, call
  <1>15. ASSUME NEW c \in Devices, DeviceChanges(c) PROVE Stages'
    BY <1>15 DEF DeviceChanges, pins, call
  <1>16. ASSUME NEW l \in Lines, OtherProcess(l) PROVE Stages'
    BY <1>16 DEF OtherProcess, pins, call
  <1> HIDE DEF Stages
  <1> QED
    BY <1>1, <1>2, <1>5, <1>6, <1>7, <1>8, <1>9, <1>10, <1>11, <1>12, <1>13,
       <1>14, <1>15, <1>16 DEF Next, CrashesOnNull, Restart

\* The handles that are open.
Handles == opened = {<<h, chip[h]>> : h \in {h \in Holders : chip[h] # NoChip}}

\* Each line that is requested is that of the object it is requested by.
Owners == \A l \in Lines : owner[l] \in Holders => line[owner[l]] = l

\* Every step keeps the handles and the members in agreement.
LEMMA HandlesStep == Inv /\ [Next]_vars => Handles'
  <1> SUFFICES ASSUME TypeOK, Stages, Handles, [Next]_vars PROVE Handles'
    BY DEF Inv, NothingLeaks, Handles
  <1> USE GpioLinesAssumption
      DEF GpioLinesAssumption, Handles, Holders
  <1>1. ASSUME UNCHANGED <<opened, chip>> PROVE Handles'
    BY <1>1
  <1>2. ASSUME opened' = opened \ {<<New, chip[New]>>},
               chip' = [chip EXCEPT ![New] = NoChip]
        PROVE  Handles'
    BY <1>2 DEF TypeOK
  <1>3. ASSUME NEW c \in Chips, Opens(c), chip[New] = NoChip PROVE Handles'
    BY <1>3 DEF Opens, TypeOK
  <1>4. ASSUME Throw, UNCHANGED opened, chip[New] = NoChip PROVE Handles'
    BY <1>4 DEF Throw, TypeOK
  <1>5. CASE OpenNamed
    BY <1>5, <1>3 DEF OpenNamed, Stages, Opens, TypeOK
  <1>6. CASE OpenNamedFails
    BY <1>6, <1>4 DEF OpenNamedFails, Stages
  <1>7. ASSUME NEW c \in Chips, ScanHit(c) PROVE Handles'
    BY <1>7, <1>3 DEF ScanHit, First, Stages
  <1>8. ASSUME NEW c \in Chips, ScanMiss(c) PROVE Handles'
    <2>1. CASE Throw
      BY <2>1, <1>8, <1>4 DEF ScanMiss, First, Stages
    <2>2. CASE UNCHANGED <<pins, pc, want, n>>
      BY <2>2, <1>8, <1>1 DEF ScanMiss, pins
    <2> QED  BY <2>1, <2>2, <1>8 DEF ScanMiss
  <1>9. CASE Refused
    BY <1>9, <1>2 DEF Refused, CloseChip, Throw
  <1>10. CASE Acquire
    BY <1>10, <1>1, <1>2 DEF Acquire, CloseChip
  <1>11. CASE Dies
    BY <1>11 DEF Dies
  <1>12. CASE GpioBind
    <2>1. n \in Pins /\ n # New
      BY DEF TypeOK
    <2>2. opened' = {<<Passed(h[1]), h[2]>> :
                        h \in {h \in opened : h[1] # n}}
      BY <1>12 DEF GpioBind, Replace
    <2>3. chip' = [chip EXCEPT ![n] = chip[New], ![New] = NoChip]
      BY <1>12 DEF GpioBind, Replace, Moved
    <2> DEFINE Old == {k \in Holders : chip[k] # NoChip /\ k # n}
    <2>4. opened' = {<<Passed(k), chip[k]>> : k \in Old}
      <3>1. {h \in opened : h[1] # n} = {<<k, chip[k]>> : k \in Old}
        OBVIOUS
      <3>2. ASSUME NEW x \in opened'
            PROVE  \E k \in Old : x = <<Passed(k), chip[k]>>
        <4>1. PICK h \in {h \in opened : h[1] # n} : x = <<Passed(h[1]), h[2]>>
          BY <2>2
        <4>2. PICK k \in Old : h = <<k, chip[k]>>
          BY <3>1
        <4> QED  BY <4>1, <4>2
      <3>3. ASSUME NEW k \in Old PROVE <<Passed(k), chip[k]>> \in opened'
        <4>1. <<k, chip[k]>> \in {h \in opened : h[1] # n}
          BY <3>1
        <4>2. \A h \in {h \in opened : h[1] # n} :
                 <<Passed(h[1]), h[2]>> \in opened'
          BY <2>2
        <4> QED  BY <4>1, <4>2
      <3> QED  BY <3>2, <3>3
    <2>5. ASSUME NEW k \in Old
          PROVE  /\ Passed(k) \in Holders /\ chip'[Passed(k)] = chip[k]
                 /\ chip[k] # NoChip
      BY <2>1, <2>3 DEF TypeOK, Passed
    <2>6. ASSUME NEW h \in Holders, chip'[h] # NoChip
          PROVE  \E k \in Old : h = Passed(k) /\ chip'[h] = chip[k]
      <3>1. CASE h = n
        <4>1. New \in Old /\ Passed(New) = n /\ chip'[n] = chip[New]
          BY <2>1, <2>3, <2>6, <3>1 DEF TypeOK, Passed
        <4> QED  BY <4>1, <3>1
      <3>2. CASE h # n
        <4>1. h \in Old /\ Passed(h) = h /\ chip'[h] = chip[h]
          BY <2>1, <2>3, <2>6, <3>2 DEF TypeOK, Passed
        <4> QED  BY <4>1
      <3> QED  BY <3>1, <3>2
    <2> HIDE DEF Old
    <2> QED  BY <2>4, <2>5, <2>6
  <1>13. CASE \/ \E p \in Pins : SetPinMode(p)
              \/ Rerequest
              \/ \E c \in Devices : DeviceChanges(c)
              \/ \E l \in Lines : OtherProcess(l)
              \/ \E p \in Pins, l \in Asked, w \in Offsets \cup BadLines :
                    Construct(p, l, w)
              \/ UNCHANGED vars
    BY <1>13, <1>1 DEF SetPinMode, Release, Rerequest, DeviceChanges,
         OtherProcess, Construct, pins, vars
  <1> HIDE DEF Handles
  <1> QED
    BY <1>5, <1>6, <1>7, <1>8, <1>9, <1>10, <1>11, <1>12, <1>13
       DEF Next, CrashesOnNull, Restart

\* A step that changes neither lines nor their owners keeps Owners and
\* LinesKept, as long as no line comes with a label.
LEMMA Untouched ==
    ASSUME Inv, UNCHANGED <<gpiod, owner, line>>,
           \/ UNCHANGED label
           \/ /\ line[New] = NoLine
              /\ \A h \in Pins : label'[h] = label[h]
    PROVE  Owners' /\ LinesKept'
  BY DEF Inv, NothingLeaks, Owners, LinesKept, Holders

\* Every step keeps the owners of the lines, and each line with its object.
LEMMA LinesStep == Inv /\ [Next]_vars => Owners' /\ LinesKept'
  <1> SUFFICES ASSUME Inv, [Next]_vars PROVE Owners' /\ LinesKept'
    OBVIOUS
  <1> TypeOK /\ Stages /\ Owners /\ LinesKept
    BY DEF Inv, NothingLeaks, Owners
  <1> USE GpioLinesAssumption
      DEF GpioLinesAssumption, Holders, Owners, LinesKept
  <1>1. ASSUME Throw, UNCHANGED <<gpiod, owner>>, line[New] = NoLine
        PROVE  Owners' /\ LinesKept'
    BY <1>1, Untouched DEF Throw, TypeOK
  <1>2. ASSUME NEW c, Opens(c) PROVE Owners' /\ LinesKept'
    BY <1>2, Untouched DEF Opens
  <1>3. CASE OpenNamed \/ \E c \in Chips : ScanHit(c)
    BY <1>3, <1>2 DEF OpenNamed, ScanHit
  <1>4. CASE OpenNamedFails \/ Refused
    BY <1>4, <1>1 DEF OpenNamedFails, Refused, Stages
  <1>5. ASSUME NEW c \in Chips, ScanMiss(c) PROVE Owners' /\ LinesKept'
    <2>1. CASE Throw
      BY <2>1, <1>5, <1>1 DEF ScanMiss, First, Stages
    <2>2. CASE UNCHANGED <<pins, pc, want, n>>
      BY <2>2, <1>5, Untouched DEF ScanMiss, pins
    <2> QED  BY <2>1, <2>2, <1>5 DEF ScanMiss
  <1>6. ASSUME NEW p \in Pins, NEW l \in Asked, NEW w \in Offsets \cup BadLines,
               Construct(p, l, w)
        PROVE  Owners' /\ LinesKept'
    BY <1>6, Untouched DEF Construct, Stages, TypeOK
  <1>7. CASE Acquire
    <2> DEFINE x == <<chip[New], want>>
    <2>1. x \in Lines /\ x[1] = chip[New] /\ owner[x] = Free
      BY <1>7 DEF Acquire, Stages, Lines
    <2>2. /\ owner' = [owner EXCEPT ![x] = New]
          /\ line' = [line EXCEPT ![New] = x]
          /\ UNCHANGED <<gpiod, label>>
      BY <1>7 DEF Acquire
    <2>3. line[New] = NoLine /\ label[New] \in {x[1], Label[x[1]]}
      BY <1>7, <2>1 DEF Acquire, Stages
    <2> HIDE DEF x
    <2> QED  BY <2>1, <2>2, <2>3 DEF TypeOK
  <1>8. CASE Dies
    BY <1>8 DEF Dies, TypeOK
  <1>9. CASE GpioBind
    <2>1. /\ owner' = [l \in Lines |->
                          IF owner[l] = n THEN Free ELSE Passed(owner[l])]
          /\ line' = [line EXCEPT ![n] = line[New], ![New] = NoLine]
          /\ label' = [label EXCEPT ![n] = label[New], ![New] = NoLabel]
          /\ UNCHANGED gpiod
      BY <1>9 DEF GpioBind, Replace, Moved
    <2> QED  BY <2>1 DEF TypeOK, Passed
  <1>10. ASSUME NEW p \in Pins, SetPinMode(p) PROVE Owners' /\ LinesKept'
    BY <1>10 DEF SetPinMode, Release, pins, TypeOK
  <1>11. CASE Rerequest
    BY <1>11 DEF Rerequest, pins, Stages, TypeOK
  <1>12. CASE UNCHANGED vars \/ \E c \in Devices : DeviceChanges(c)
    BY <1>12, Untouched DEF DeviceChanges, vars, pins
  <1>13. ASSUME NEW l \in Lines, OtherProcess(l) PROVE Owners' /\ LinesKept'
    BY <1>13 DEF OtherProcess, pins, TypeOK
  <1> HIDE DEF Owners, LinesKept
  <1> QED
    BY <1>3, <1>4, <1>5, <1>6, <1>7, <1>8, <1>9, <1>10, <1>11, <1>12, <1>13
       DEF Next, CrashesOnNull, Restart

\* The invariant holds in every state.
LEMMA InvAlways == Spec => []Inv
  <1>1. Inv /\ [Next]_vars => Inv'
    BY TypeStep, StagesStep, HandlesStep, LinesStep
       DEF Inv, NothingLeaks, Handles, Owners
  <1> QED  BY InvInit, <1>1, PTL DEF Spec

\* Every variable keeps its type.
THEOREM TypeCorrect == Spec => []TypeOK
  <1>1. Inv => TypeOK
    BY DEF Inv
  <1> QED  BY InvAlways, <1>1, PTL

\* However constructors end, exactly the chips and lines that living objects
\* refer to are open and requested.
THEOREM NoLeak == Spec => []NothingLeaks
  <1>1. Inv => NothingLeaks
    BY DEF Inv
  <1> QED  BY InvAlways, <1>1, PTL

\* A pin keeps a line of the chip it was asked for; with libgpiod 2 nobody
\* else has it.
THEOREM LineKept == Spec => []PinKeepsLine
  <1>1. Inv => PinKeepsLine
    BY DEF Inv, LinesKept, PinKeepsLine, Holders
  <1> QED  BY InvAlways, <1>1, PTL

=============================================================================
