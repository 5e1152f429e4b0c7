------------------------------- MODULE SPIBus -------------------------------
(***************************************************************************)
(* SPI on spidev (linux/LinuxHardwareSPI.cpp, SPIChip.h, PosixFile.h):     *)
(* LinuxHardwareSPI objects that open a device path share one LinuxSPIChip *)
(* through SPI_map; the chip's mutex serialises the transactions of the    *)
(* threads, and each transaction sets the clock speed of the device and    *)
(* restores the default one.                                               *)
(*                                                                         *)
(* beginTransaction locks and then sets the speed; endTransaction unlocks  *)
(* and then restores it: four steps, between which other threads run.      *)
(* A call to ioctl may fail, and then throws.  Both calls stand inside     *)
(* assert(), so a build with NDEBUG does not make them.                    *)
(*                                                                         *)
(* begin and end are called with no transaction on the object under way.   *)
(***************************************************************************)

CONSTANTS
    Threads,    \* the application's threads
    Objects,    \* the LinuxHardwareSPI objects
    Paths,      \* the spidev device paths
    Chips,      \* the LinuxSPIChip objects that may be created
    Speeds,     \* clock frequencies
    NoChip,     \* a null spiChip, or no entry in SPI_map
    SimChip,    \* a SimSPIChip
    NoPath,     \* the path of a chip not created yet
    NoThread,   \* the holder of a free mutex
    NoSpeed,    \* a frequency not known yet
    NoObject,   \* the object of a thread in no transaction
    NDebug      \* the build defines NDEBUG

ASSUME SPIBusAssumption ==
    /\ NoChip \notin Chips /\ SimChip \notin Chips /\ NoChip # SimChip
    /\ NoPath \notin Paths
    /\ NoThread \notin Threads
    /\ NoSpeed \notin Speeds
    /\ NoObject \notin Objects
    /\ NDebug \in BOOLEAN

VARIABLES
    spiString,     \* per object: the device path it is set to
    spiChip,       \* per object: its chip
    SPI_map,       \* per path: the open chip
    devicePath,    \* per chip: the path it has open
    ioctlFails,    \* whether the driver may refuse an ioctl; it never changes
    defaultSpeed,  \* per chip: the speed restored after a transaction
    clock,         \* per chip: the speed the device is set to
    holder,        \* per chip: the thread that holds SPIMutex
    pc,            \* per thread: where it is in a transaction
    object,        \* per thread: the object of that transaction
    speed          \* per thread: the speed it asked for

objectVars == <<spiString, spiChip, SPI_map, devicePath, defaultSpeed,
                ioctlFails>>
threadVars == <<pc, object, speed>>
vars       == <<objectVars, clock, holder, threadVars>>

(***************************************************************************)
(* idle -> locking -> locked -> active -> unlocked -> idle                 *)
(* On a simulated or closed chip both calls do nothing: idle -> active.    *)
(***************************************************************************)
TypeOK ==
    /\ spiString \in [Objects -> Paths]
    /\ spiChip \in [Objects -> Chips \cup {NoChip, SimChip}]
    /\ SPI_map \in [Paths -> Chips \cup {NoChip}]
    /\ devicePath \in [Chips -> Paths \cup {NoPath}]
    /\ defaultSpeed \in [Chips -> Speeds \cup {NoSpeed}]
    /\ ioctlFails \in BOOLEAN
    /\ clock \in [Chips -> Speeds \cup {NoSpeed}]
    /\ holder \in [Chips -> Threads \cup {NoThread}]
    /\ pc \in [Threads -> {"idle", "locking", "locked", "active", "unlocked"}]
    /\ object \in [Threads -> Objects \cup {NoObject}]
    /\ speed \in [Threads -> Speeds \cup {NoSpeed}]
    /\ \A t \in Threads : pc[t] # "idle" => object[t] \in Objects

Init ==
    /\ spiString \in [Objects -> Paths]
    /\ spiChip = [o \in Objects |-> NoChip]
    /\ SPI_map = [p \in Paths |-> NoChip]
    /\ devicePath = [c \in Chips |-> NoPath]
    /\ defaultSpeed = [c \in Chips |-> NoSpeed]
    /\ ioctlFails \in BOOLEAN
    /\ clock = [c \in Chips |-> NoSpeed]
    /\ holder = [c \in Chips |-> NoThread]
    /\ pc = [t \in Threads |-> "idle"]
    /\ object = [t \in Threads |-> NoObject]
    /\ speed = [t \in Threads |-> NoSpeed]

-----------------------------------------------------------------------------
(* begin and end.                                                          *)

Free(o) == \A t \in Threads : pc[t] # "idle" => object[t] # o

\* begin(name, freq): the path is replaced even when the chip is open already.
\* The frequency counts only when the chip is opened.
SetPath(o, p) ==
    /\ Free(o)
    /\ spiString' = [spiString EXCEPT ![o] = p]
    /\ UNCHANGED ioctlFails

BeginOpen(o, p) ==
    /\ SetPath(o, p)
    /\ spiChip[o] # NoChip
    /\ UNCHANGED <<spiChip, SPI_map, devicePath, defaultSpeed, clock, holder,
                   threadVars>>

BeginShared(o, p) ==
    /\ SetPath(o, p)
    /\ spiChip[o] = NoChip
    /\ SPI_map[p] # NoChip
    /\ spiChip' = [spiChip EXCEPT ![o] = SPI_map[p]]
    /\ UNCHANGED <<SPI_map, devicePath, defaultSpeed, clock, holder,
                   threadVars>>

\* Mutant: the new chip is not entered in SPI_map.
BeginUnshared(o, p, f, c) ==
    /\ SetPath(o, p)
    /\ spiChip[o] = NoChip
    /\ SPI_map[p] = NoChip
    /\ devicePath[c] = NoPath
    /\ spiChip' = [spiChip EXCEPT ![o] = c]
    /\ devicePath' = [devicePath EXCEPT ![c] = p]
    /\ defaultSpeed' = [defaultSpeed EXCEPT ![c] = f]
    /\ clock' = [clock EXCEPT ![c] = f]
    /\ UNCHANGED <<SPI_map, holder, threadVars>>

BeginNew(o, p, f, c) ==
    /\ SetPath(o, p)
    /\ spiChip[o] = NoChip
    /\ SPI_map[p] = NoChip
    /\ devicePath[c] = NoPath
    /\ spiChip' = [spiChip EXCEPT ![o] = c]
    /\ SPI_map' = [SPI_map EXCEPT ![p] = c]
    /\ devicePath' = [devicePath EXCEPT ![c] = p]
    /\ defaultSpeed' = [defaultSpeed EXCEPT ![c] = f]
    /\ clock' = [clock EXCEPT ![c] = f]
    /\ UNCHANGED <<holder, threadVars>>

\* The device cannot be opened or configured: fall back to the simulator.
BeginSim(o, p) ==
    /\ SetPath(o, p)
    /\ spiChip[o] = NoChip
    /\ SPI_map[p] = NoChip
    /\ spiChip' = [spiChip EXCEPT ![o] = SimChip]
    /\ UNCHANGED <<SPI_map, devicePath, defaultSpeed, clock, holder,
                   threadVars>>

End(o) ==
    /\ Free(o)
    /\ spiChip' = [spiChip EXCEPT ![o] = NoChip]
    /\ UNCHANGED <<spiString, SPI_map, devicePath, defaultSpeed, ioctlFails,
                   clock, holder, threadVars>>

-----------------------------------------------------------------------------
(* Transactions.                                                           *)

ChipOf(t) == spiChip[object[t]]

\* The call returns, and with it go its object and its speed.
Leave(t) ==
    /\ pc' = [pc EXCEPT ![t] = "idle"]
    /\ object' = [object EXCEPT ![t] = NoObject]
    /\ speed' = [speed EXCEPT ![t] = NoSpeed]

BeginTransaction(t, o, f) ==
    /\ pc[t] = "idle"
    /\ object' = [object EXCEPT ![t] = o]
    /\ speed' = [speed EXCEPT ![t] = f]
    /\ pc' = [pc EXCEPT ![t] =
                  IF spiChip[o] \in Chips THEN "locking" ELSE "active"]
    /\ UNCHANGED <<objectVars, clock, holder>>

Lock(t) ==
    /\ pc[t] = "locking"
    /\ holder[ChipOf(t)] = NoThread
    /\ holder' = [holder EXCEPT ![ChipOf(t)] = t]
    /\ pc' = [pc EXCEPT ![t] = "locked"]
    /\ UNCHANGED <<objectVars, clock, object, speed>>

\* What the ioctl inside an assert() does.
Program(c, f) ==
    clock' = IF NDebug THEN clock ELSE [clock EXCEPT ![c] = f]

SetSpeed(t) ==
    /\ pc[t] = "locked"
    /\ Program(ChipOf(t), speed[t])
    /\ pc' = [pc EXCEPT ![t] = "active"]
    /\ UNCHANGED <<objectVars, holder, object, speed>>

\* The exception leaves beginTransaction; the mutex stays locked.
SetSpeedThrows(t) ==
    /\ ioctlFails /\ ~NDebug
    /\ pc[t] = "locked"
    /\ Leave(t)
    /\ UNCHANGED <<objectVars, clock, holder>>

\* Mutant: the mutex is not released.
EndKeepsMutex(t) ==
    /\ pc[t] = "active"
    /\ IF ChipOf(t) \in Chips
       THEN pc' = [pc EXCEPT ![t] = "unlocked"] /\ UNCHANGED <<object, speed>>
       ELSE Leave(t)
    /\ UNCHANGED <<objectVars, clock, holder>>

\* Mutant: the mutex is released and the speed left as it is.
EndKeepsSpeed(t) ==
    /\ pc[t] = "active"
    /\ IF ChipOf(t) \in Chips
       THEN holder' = [holder EXCEPT ![ChipOf(t)] = NoThread]
       ELSE UNCHANGED holder
    /\ Leave(t)
    /\ UNCHANGED <<objectVars, clock>>

EndTransaction(t) ==
    /\ pc[t] = "active"
    /\ \/ /\ ChipOf(t) \in Chips
          /\ holder' = [holder EXCEPT ![ChipOf(t)] = NoThread]
          /\ pc' = [pc EXCEPT ![t] = "unlocked"]
          /\ UNCHANGED <<object, speed>>
       \/ /\ ChipOf(t) \notin Chips
          /\ Leave(t)
          /\ UNCHANGED holder
    /\ UNCHANGED <<objectVars, clock>>

\* Mutant: what is restored is the speed of the transaction.
RestoreAsked(t) ==
    /\ pc[t] = "unlocked"
    /\ Program(ChipOf(t), speed[t])
    /\ Leave(t)
    /\ UNCHANGED <<objectVars, holder>>

RestoreSpeed(t) ==
    /\ pc[t] = "unlocked"
    /\ \/ Program(ChipOf(t), defaultSpeed[ChipOf(t)])
       \/ ioctlFails /\ ~NDebug /\ UNCHANGED clock
    /\ Leave(t)
    /\ UNCHANGED <<objectVars, holder>>

Next ==
    \/ \E o \in Objects, p \in Paths :
          \/ BeginOpen(o, p)
          \/ BeginShared(o, p)
          \/ \E f \in Speeds, c \in Chips : BeginNew(o, p, f, c)
          \/ BeginSim(o, p)
    \/ \E o \in Objects : End(o)
    \/ \E t \in Threads, o \in Objects, f \in Speeds : BeginTransaction(t, o, f)
    \/ \E t \in Threads : \/ Lock(t)
                          \/ SetSpeed(t)
                          \/ SetSpeedThrows(t)
                          \/ EndTransaction(t)
                          \/ RestoreSpeed(t)

Spec == Init /\ [][Next]_vars

(***************************************************************************)
(* A thread in a call goes on, a transaction is ended by its thread, and a *)
(* free mutex is given to one of those who wait for it: to which is not    *)
(* said, std::mutex promises no order.                                     *)
(***************************************************************************)
FairSpec ==
    /\ Spec
    /\ \A c \in Chips : WF_vars(\E t \in Threads : Lock(t) /\ ChipOf(t) = c)
    /\ \A t \in Threads : /\ WF_vars(SetSpeed(t) \/ SetSpeedThrows(t))
                          /\ WF_vars(EndTransaction(t))
                          /\ WF_vars(RestoreSpeed(t))

-----------------------------------------------------------------------------
(* Safety.                                                                 *)

Holding(t) == pc[t] \in {"locked", "active"} /\ ChipOf(t) \in Chips

\* Threads never overlap on a device, whichever objects they use and however
\* often these were closed and opened again: SPI_map gives one path one mutex.
MutualExclusion ==
    \A t, u \in Threads :
        /\ t # u /\ Holding(t) /\ Holding(u)
        => devicePath[ChipOf(t)] # devicePath[ChipOf(u)]

\* When no transaction is under way the device has its default speed back, in
\* spite of restores that ran into the next thread's transaction.
RestoredWhenQuiet == ~ioctlFails =>
    \A c \in Chips : (\A t \in Threads : pc[t] = "idle" \/ ChipOf(t) # c)
                     => clock[c] = defaultSpeed[c]

\* A transaction may find the default speed instead of its own, but never the
\* speed another transaction asked for.
NoForeignSpeed ==
    \A t \in Threads : pc[t] = "active" /\ ChipOf(t) \in Chips =>
        clock[ChipOf(t)] \in {speed[t], defaultSpeed[ChipOf(t)]}

\* Where no ioctl throws with the mutex held, somebody gets the bus whenever
\* somebody waits for it.
BusGranted == \A o \in Objects :
    (~ioctlFails /\ \E t \in Threads : pc[t] = "locking" /\ object[t] = o)
    ~> (\E t \in Threads : pc[t] = "active" /\ spiChip[object[t]] = spiChip[o])

-----------------------------------------------------------------------------
(* What comments of the code say, and the code does not keep.              *)

\* LinuxHardwareSPI.cpp:99: beginTransaction is to "lock the bus and apply
\* clockSpeed for the upcoming transaction".
SpeedApplied ==
    \A t \in Threads : pc[t] = "active" /\ ChipOf(t) \in Chips =>
        clock[ChipOf(t)] = speed[t]

=============================================================================
