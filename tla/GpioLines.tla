------------------------------ MODULE GpioLines ------------------------------
(***************************************************************************)
(* How a LinuxGPIOPin comes by its line (linux/gpio/LinuxGPIOPin.cpp):     *)
(* the constructor looks for a chip by device name or by label, requests   *)
(* the line and throws when it cannot have it; gpioBind puts the new pin   *)
(* in the table and destroys the one that was there.                       *)
(*                                                                         *)
(* Devices come and go in /dev, and other processes request lines, between *)
(* any two steps.  With libgpiod 1 a pin keeps its chip open and gives its *)
(* line back for a moment in setPinMode; with libgpiod 2 neither.          *)
(*                                                                         *)
(* What a destructor would release is not released when a constructor      *)
(* throws: what an object under construction holds is under New.           *)
(***************************************************************************)
EXTENDS Naturals

CONSTANTS
    Pins,        \* the pin numbers
    Chips,       \* the names in /dev of chips
    Plain,       \* names in /dev of what is no chip
    Order,       \* per chip: its place when scandir sorts them
    Label,       \* per chip: the label the driver gives it
    Offsets,     \* the lines of each chip
    BadLines,    \* negative offsets, ones too large, names no line has
    New,         \* the holder: the object under construction
    Free, Other, \* a line nobody, or another process, has requested
    NoChip, NoLine, NoLabel

Lines   == Chips \X Offsets
Holders == Pins \cup {New}
Devices == Chips \cup Plain
Asked   == Devices \cup {Label[c] : c \in Chips}

ASSUME GpioLinesAssumption ==
    /\ Label \in [Chips -> Asked] /\ Order \in [Chips -> Nat]
    /\ Pins # {} /\ New \notin Pins /\ Free \notin Holders /\ Other \notin Holders
    /\ Free # Other /\ BadLines \cap Offsets = {}
    /\ Plain \cap Chips = {} /\ NoChip \notin Chips /\ NoLine \notin Lines /\ NoLabel \notin Asked

VARIABLES
    gpiod,     \* GPIOD_V: the version of libgpiod; it never changes
    present,   \* the devices now in /dev
    opened,    \* the chip handles open: who opened which chip
    owner,     \* per line: who has requested it
    chip,      \* per holder: the member chip
    line,      \* per holder: the line that its member line refers to
    label,     \* per holder: the label it was constructed with
    pc,        \* where the main thread is
    todo,      \* find_chip_by_label: the entries still to be looked at
    want,      \* getLine: the line that was asked for
    n          \* the pin number under construction, or being reconfigured

pins  == <<chip, line, label>>
call  == <<todo, want, n>>
vars  == <<gpiod, present, opened, owner, pins, pc, call>>

TypeOK ==
    /\ gpiod \in {1, 2}
    /\ present \subseteq Devices
    /\ opened \subseteq Holders \X Chips
    /\ owner \in [Lines -> Holders \cup {Free, Other}]
    /\ chip \in [Holders -> Chips \cup {NoChip}]
    /\ line \in [Holders -> Lines \cup {NoLine}]
    /\ label \in [Holders -> Asked \cup {NoLabel}]
    /\ pc \in {"idle", "named", "scan", "found", "made", "released"}
    /\ todo \subseteq Chips
    /\ want \in Offsets \cup BadLines \cup {NoLine}
    /\ n \in Pins

Init ==
    /\ gpiod \in {1, 2}
    /\ present \in SUBSET Devices
    /\ opened = {}
    /\ owner \in [Lines -> {Free, Other}]
    /\ chip = [h \in Holders |-> NoChip]
    /\ line = [h \in Holders |-> NoLine]
    /\ label = [h \in Holders |-> NoLabel]
    /\ pc = "idle" /\ todo = {} /\ want = NoLine
    /\ n = CHOOSE p \in Pins : TRUE

-----------------------------------------------------------------------------
(* The constructor.                                                        *)

\* The exception leaves the constructor, and nothing is destroyed.
Throw ==
    /\ pc' = "idle"
    /\ chip' = [chip EXCEPT ![New] = NoChip]
    /\ label' = [label EXCEPT ![New] = NoLabel]
    /\ todo' = {} /\ want' = NoLine
    /\ UNCHANGED <<line, n>>

\* What scandir gives with chip_dir_filter, which follows links and asks sysfs:
\* the character devices of the GPIO subsystem.
Scanned == present \cap Chips

\* find_chip_by_label: the label is the name of a device that access() finds,
\* a chip or not, or the chips are scanned for it.  Without any it throws at once.
Construct(p, l, w) ==
    /\ pc = "idle"
    /\ n' = p /\ want' = w
    /\ label' = [label EXCEPT ![New] = l]
    /\ \/ l \in present /\ pc' = "named" /\ todo' = {}
       \/ /\ l \notin present /\ Scanned # {}
          /\ pc' = "scan" /\ todo' = Scanned
    /\ UNCHANGED <<gpiod, present, opened, owner, chip, line>>

\* chip_open_by_name, and gpiod_chip_open in it.
Opens(c) ==
    /\ c \in present \cap Chips
    /\ chip' = [chip EXCEPT ![New] = c]
    /\ opened' = opened \cup {<<New, c>>}
    /\ pc' = "found" /\ todo' = {}
    /\ UNCHANGED <<gpiod, present, owner, line, label, want, n>>

OpenNamed == pc = "named" /\ Opens(label[New])

\* The device is no chip, went after access() found it, or cannot be opened: the
\* chips are not scanned for the label then.
OpenNamedFails ==
    /\ pc = "named"
    /\ Throw
    /\ UNCHANGED <<gpiod, present, opened, owner>>

First(c) == pc = "scan" /\ c \in todo /\ \A d \in todo : Order[c] <= Order[d]

\* Mutant: the first chip that can be opened is taken for a match.
ScanHitUnlabelled(c) == First(c) /\ Opens(c)

ScanHit(c) == First(c) /\ Label[c] = label[New] /\ Opens(c)

\* The entry cannot be opened, or is opened, has another label, or none that
\* can be read, and is closed again.
ScanMiss(c) ==
    /\ First(c)
    /\ \/ todo = {c} /\ Throw
       \/ /\ todo # {c}
          /\ todo' = todo \ {c}
          /\ UNCHANGED <<pins, pc, want, n>>
    /\ UNCHANGED <<gpiod, present, opened, owner>>

CloseChip == opened' = opened \ {<<New, chip[New]>>}

\* Mutant: the check of the number or the name forgets the chip.
RefusedKeepsChip ==
    /\ pc = "found" /\ gpiod = 2 /\ want \in BadLines
    /\ Throw
    /\ UNCHANGED <<gpiod, present, opened, owner>>

\* A negative number, a name that libgpiod 2 does not find, or a line that the
\* kernel does not give: the chip is closed and the constructor throws.
Refused ==
    /\ pc = "found"
    /\ \/ want \in BadLines
       \/ want \in Offsets /\ owner[<<chip[New], want>>] # Free
    /\ CloseChip
    /\ Throw
    /\ UNCHANGED <<gpiod, present, owner>>

\* libgpiod 2 closes the chip: a line request outlives it.
Acquire ==
    LET l == <<chip[New], want>>
    IN  /\ pc = "found" /\ want \in Offsets
        /\ owner[l] = Free
        /\ owner' = [owner EXCEPT ![l] = New]
        /\ line' = [line EXCEPT ![New] = l]
        /\ \/ gpiod = 1 /\ UNCHANGED <<opened, chip>>
           \/ gpiod = 2 /\ CloseChip /\ chip' = [chip EXCEPT ![New] = NoChip]
        /\ pc' = "made" /\ want' = NoLine
        /\ UNCHANGED <<gpiod, present, label, todo, n>>

\* Every handle and line of the process is gone, whatever it was doing.
Dies ==
    /\ opened' = {}
    /\ owner' = [l \in Lines |-> IF owner[l] \in Holders THEN Free ELSE owner[l]]
    /\ chip' = [h \in Holders |-> NoChip]
    /\ line' = [h \in Holders |-> NoLine]
    /\ label' = [h \in Holders |-> NoLabel]
    /\ pc' = "idle" /\ todo' = {} /\ want' = NoLine
    /\ UNCHANGED <<gpiod, present, n>>

\* libgpiod 1 has no such line, and the null pointer is passed on.
CrashesOnNull == pc = "found" /\ gpiod = 1 /\ want \in BadLines /\ Dies

\* Nobody catches what a constructor throws, or the program is killed, and is
\* started again.
Restart == Dies

-----------------------------------------------------------------------------
(* The pin in the table.                                                   *)

Moved(f, none) == [f EXCEPT ![n] = f[New], ![New] = none]

\* Whose what was h's is when the new pin is in the table.
Passed(h) == IF h = New THEN n ELSE h

\* The new pin takes the place of the old one, whose line is released.
Replace(handles) ==
    /\ pc = "made" /\ pc' = "idle"
    /\ opened' = {<<Passed(h[1]), h[2]>> : h \in handles}
    /\ owner' = [l \in Lines |->
                     IF owner[l] = n THEN Free ELSE Passed(owner[l])]
    /\ chip' = Moved(chip, NoChip) /\ line' = Moved(line, NoLine)
    /\ label' = Moved(label, NoLabel)
    /\ UNCHANGED <<gpiod, present, call>>

\* Mutant: the destructor of the old pin does not close its chip.
GpioBindKeepsChip == Replace(opened)

GpioBind == Replace({h \in opened : h[1] # n})

Release(p) ==
    /\ pc = "idle" /\ line[p] # NoLine
    /\ owner' = [owner EXCEPT ![line[p]] = IF @ = p THEN Free ELSE @]
    /\ pc' = "released" /\ n' = p
    /\ UNCHANGED <<gpiod, present, opened, pins, todo, want>>

\* Mutant: libgpiod 2 is used as libgpiod 1 was.
SetPinModeReleases(p) == Release(p)

\* setPinMode: libgpiod 1 cannot change a requested line, which is released
\* and requested again.  libgpiod 2 changes the request, and nothing here.
SetPinMode(p) == gpiod = 1 /\ Release(p)

\* The request may fail, which the code does not look at.
Rerequest ==
    /\ pc = "released" /\ pc' = "idle"
    /\ \/ owner[line[n]] = Free /\ owner' = [owner EXCEPT ![line[n]] = n]
       \/ UNCHANGED owner
    /\ UNCHANGED <<gpiod, present, opened, pins, call>>

-----------------------------------------------------------------------------
(* The system around the program.                                          *)

DeviceChanges(c) ==
    /\ present' = IF c \in present THEN present \ {c} ELSE present \cup {c}
    /\ UNCHANGED <<gpiod, opened, owner, pins, pc, call>>

OtherProcess(l) ==
    /\ owner[l] \in {Free, Other}
    /\ owner' = [owner EXCEPT ![l] = IF @ = Free THEN Other ELSE Free]
    /\ UNCHANGED <<gpiod, present, opened, pins, pc, call>>

Next ==
    \/ \E p \in Pins, l \in Asked, w \in Offsets \cup BadLines :
          Construct(p, l, w)
    \/ OpenNamed \/ OpenNamedFails
    \/ \E c \in Chips : ScanHit(c) \/ ScanMiss(c)
    \/ Refused \/ Acquire \/ CrashesOnNull
    \/ GpioBind
    \/ \E p \in Pins : SetPinMode(p)
    \/ Rerequest
    \/ Restart
    \/ \E c \in Devices : DeviceChanges(c)
    \/ \E l \in Lines : OtherProcess(l)

Spec == Init /\ [][Next]_vars

-----------------------------------------------------------------------------
(* Safety.                                                                 *)

\* However a constructor ends, and whatever gpioBind replaces, the handles
\* that are open are those that a chip member of a living object names, and
\* the lines requested are those of living objects.
NothingLeaks ==
    /\ opened = {<<h, chip[h]>> : h \in {h \in Holders : chip[h] # NoChip}}
    /\ \A l \in Lines : owner[l] \in Holders => line[owner[l]] = l

\* A pin in the table has the line of the chip it was constructed with, which
\* nobody takes from it.  With libgpiod 1 setPinMode may lose it.
PinKeepsLine ==
    \A p \in Pins : line[p] # NoLine =>
        /\ label[p] \in {line[p][1], Label[line[p][1]]}
        /\ gpiod = 2 => owner[line[p]] = p

=============================================================================
