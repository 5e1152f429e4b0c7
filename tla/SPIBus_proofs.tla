---------------------------- MODULE SPIBus_proofs ----------------------------
(***************************************************************************)
(* Proofs about SPIBus, for any threads, objects, paths and speeds, with   *)
(* and without NDEBUG, and with ioctl calls that may fail.                 *)
(***************************************************************************)
EXTENDS SPIBus, TLAPS

\* SPI_map and the open chips are inverse to each other: one chip per path.
OneChipPerPath ==
    /\ \A p \in Paths : SPI_map[p] \in Chips => devicePath[SPI_map[p]] = p
    /\ \A c \in Chips : devicePath[c] # NoPath => SPI_map[devicePath[c]] = c
    /\ \A o \in Objects :
          spiChip[o] \in Chips => devicePath[spiChip[o]] # NoPath

\* A thread between lock and unlock holds its chip's mutex, and only threads
\* on a hardware chip are in the locked parts of a transaction.
LockHeld ==
    /\ \A t \in Threads : Holding(t) => holder[ChipOf(t)] = t
    /\ \A t \in Threads :
          pc[t] \in {"locking", "locked", "unlocked"} => ChipOf(t) \in Chips

\* Without the ioctl the device keeps the speed it was opened with.
NeverProgrammed == NDebug => \A c \in Chips : clock[c] = defaultSpeed[c]

\* A device away from its default speed has a thread that will restore it.
WillRestore == ~ioctlFails =>
    \A c \in Chips : clock[c] # defaultSpeed[c] =>
        \E t \in Threads : pc[t] \in {"active", "unlocked"} /\ ChipOf(t) = c

Inv == TypeOK /\ OneChipPerPath /\ LockHeld /\ NoForeignSpeed /\ NeverProgrammed

\* The invariant holds initially.
LEMMA InvInit == Init => Inv
  BY SPIBusAssumption
     DEF SPIBusAssumption, Init, Inv, TypeOK, OneChipPerPath, LockHeld,
         NoForeignSpeed, NeverProgrammed, Holding, ChipOf

\* Every step keeps the types.
LEMMA TypeStep == TypeOK /\ [Next]_vars => TypeOK'
  <1> SUFFICES ASSUME TypeOK, [Next]_vars PROVE TypeOK'
    OBVIOUS
  <1> USE DEF TypeOK
  <1>1. CASE UNCHANGED vars
    BY <1>1 DEF vars, objectVars, threadVars
  <1>2. ASSUME NEW o \in Objects, NEW p \in Paths,
               \/ BeginOpen(o, p) \/ BeginShared(o, p) \/ BeginSim(o, p)
               \/ \E f \in Speeds, c \in Chips : BeginNew(o, p, f, c)
        PROVE  TypeOK'
    <2>1. CASE BeginOpen(o, p)
      BY <2>1 DEF BeginOpen, SetPath, threadVars
    <2>2. CASE BeginShared(o, p)
      BY <2>2 DEF BeginShared, SetPath, threadVars
    <2>3. CASE BeginSim(o, p)
      BY <2>3 DEF BeginSim, SetPath, threadVars
    <2>4. ASSUME NEW f \in Speeds, NEW c \in Chips, BeginNew(o, p, f, c)
          PROVE  TypeOK'
      BY <2>4 DEF BeginNew, SetPath, threadVars
    <2> QED  BY <1>2, <2>1, <2>2, <2>3, <2>4
  <1>3. ASSUME NEW o \in Objects, End(o) PROVE TypeOK'
    BY <1>3 DEF End, threadVars
  <1>4. ASSUME NEW t \in Threads, NEW o \in Objects, NEW f \in Speeds,
               BeginTransaction(t, o, f)
        PROVE  TypeOK'
    BY <1>4 DEF BeginTransaction, objectVars
  <1>6. ASSUME NEW t \in Threads, Lock(t) PROVE TypeOK'
    BY <1>6 DEF Lock, objectVars
  <1>7. ASSUME NEW t \in Threads, SetSpeed(t) \/ SetSpeedThrows(t)
        PROVE  TypeOK'
    BY <1>7 DEF SetSpeed, SetSpeedThrows, Leave, Program, objectVars
  <1>8. ASSUME NEW t \in Threads, EndTransaction(t) PROVE TypeOK'
    BY <1>8 DEF EndTransaction, Leave, objectVars
  <1>9. ASSUME NEW t \in Threads, RestoreSpeed(t) PROVE TypeOK'
    BY <1>9 DEF RestoreSpeed, Leave, Program, objectVars
  <1> QED
    BY <1>1, <1>2, <1>3, <1>4, <1>6, <1>7, <1>8, <1>9 DEF Next

\* begin and end leave the chip of every transaction under way alone.
LEMMA ObjectSteps ==
    ASSUME Inv, NEW o \in Objects, Free(o),
           spiChip' \in [Objects -> Chips \cup {NoChip, SimChip}],
           \A x \in Objects : x # o => spiChip'[x] = spiChip[x],
           UNCHANGED <<holder, threadVars>>,
           \A c \in Chips : devicePath[c] # NoPath =>
                clock'[c] = clock[c] /\ defaultSpeed'[c] = defaultSpeed[c]
    PROVE  LockHeld' /\ NoForeignSpeed'
  <1>1. ASSUME NEW t \in Threads, pc[t] # "idle"
        PROVE  ChipOf(t)' = ChipOf(t)
    <2>1. object[t] \in Objects /\ object[t] # o
      BY <1>1 DEF Free, Inv, TypeOK
    <2> QED  BY <2>1 DEF ChipOf, threadVars
  <1>2. LockHeld'
    <2>1. \A t \in Threads : Holding(t)' => Holding(t) /\ ChipOf(t)' = ChipOf(t)
      BY <1>1 DEF Holding, threadVars
    <2>2. \A t \in Threads : Holding(t)' => holder'[ChipOf(t)'] = t
      BY <2>1 DEF Inv, LockHeld
    <2>3. \A t \in Threads :
             pc'[t] \in {"locking", "locked", "unlocked"} => ChipOf(t)' \in Chips
      BY <1>1 DEF Inv, LockHeld, threadVars
    <2> QED  BY <2>2, <2>3 DEF LockHeld
  <1>3. NoForeignSpeed'
    <2> SUFFICES ASSUME NEW t \in Threads,
                        pc'[t] = "active", ChipOf(t)' \in Chips
                 PROVE  clock'[ChipOf(t)'] \in
                            {speed'[t], defaultSpeed'[ChipOf(t)']}
      BY DEF NoForeignSpeed
    <2>1. pc[t] = "active" /\ ChipOf(t)' = ChipOf(t) /\ speed'[t] = speed[t]
      BY <1>1 DEF threadVars
    <2>2. devicePath[ChipOf(t)] # NoPath
      BY <2>1 DEF ChipOf, Inv, OneChipPerPath, TypeOK
    <2> QED  BY <2>1, <2>2 DEF Inv, NoForeignSpeed
  <1> QED  BY <1>2, <1>3

\* A step of thread t that keeps the objects, and the mutexes of the others.
LEMMA LockSteps ==
    ASSUME Inv, NEW t \in Threads,
           UNCHANGED objectVars,
           pc'[t] # "idle" => object'[t] = object[t],
           \A u \in Threads : u # t => object'[u] = object[u],
           pc' \in [Threads -> {"idle", "locking", "locked", "active",
                                "unlocked"}],
           \A u \in Threads : u # t => pc'[u] = pc[u],
           \A u \in Threads : u # t /\ Holding(u) =>
                holder'[ChipOf(u)] = holder[ChipOf(u)],
           pc'[t] \in {"locked", "active"} /\ ChipOf(t) \in Chips
                => holder'[ChipOf(t)] = t,
           pc'[t] \in {"locking", "locked", "unlocked"} => ChipOf(t) \in Chips
    PROVE  LockHeld' /\ OneChipPerPath'
  <1>1. \A u \in Threads : pc'[u] # "idle" => ChipOf(u)' = ChipOf(u)
    BY DEF ChipOf, objectVars
  <1>2. \A u \in Threads : Holding(u)' => holder'[ChipOf(u)'] = u
    BY <1>1 DEF Holding, Inv, LockHeld
  <1>3. \A u \in Threads :
          pc'[u] \in {"locking", "locked", "unlocked"} => ChipOf(u)' \in Chips
    BY <1>1 DEF Inv, LockHeld
  <1>4. OneChipPerPath'
    BY DEF Inv, OneChipPerPath, objectVars
  <1> QED  BY <1>2, <1>3, <1>4 DEF LockHeld

\* Every step keeps the invariant: one case per action.
LEMMA InvStep == Inv /\ [Next]_vars => Inv'
  <1> SUFFICES ASSUME Inv, [Next]_vars PROVE Inv'
    OBVIOUS
  <1>0. /\ TypeOK /\ TypeOK' /\ OneChipPerPath /\ LockHeld
        /\ NoForeignSpeed /\ NeverProgrammed
    BY TypeStep DEF Inv
  <1>1. CASE UNCHANGED vars
    BY <1>0, <1>1 DEF vars, objectVars, threadVars, Inv, OneChipPerPath,
       LockHeld, NoForeignSpeed, NeverProgrammed, Holding, ChipOf
  <1>2. ASSUME NEW o \in Objects, NEW p \in Paths,
               BeginOpen(o, p) \/ BeginShared(o, p) \/ BeginSim(o, p)
        PROVE  Inv'
    <2>1. /\ Free(o)
          /\ \A x \in Objects : x # o => spiChip'[x] = spiChip[x]
          /\ UNCHANGED <<SPI_map, devicePath, defaultSpeed, clock, holder,
                         threadVars>>
      BY <1>0, <1>2 DEF BeginOpen, BeginShared, BeginSim, SetPath, TypeOK
    <2>2. LockHeld' /\ NoForeignSpeed'
      BY <1>0, <2>1, ObjectSteps DEF TypeOK
    <2>3. spiChip'[o] \in Chips =>
             spiChip'[o] = spiChip[o] \/ spiChip'[o] = SPI_map[p]
      BY <1>0, <1>2, SPIBusAssumption
         DEF BeginOpen, BeginShared, BeginSim, TypeOK, SPIBusAssumption
    <2>4. SPI_map[p] \in Chips => devicePath[SPI_map[p]] # NoPath
      BY <1>0, SPIBusAssumption DEF OneChipPerPath, SPIBusAssumption
    <2>5. OneChipPerPath' /\ NeverProgrammed'
      BY <1>0, <2>1, <2>3, <2>4 DEF OneChipPerPath, NeverProgrammed
    <2> QED  BY <1>0, <2>2, <2>5 DEF Inv
  <1>3. ASSUME NEW o \in Objects, NEW p \in Paths, NEW f \in Speeds,
               NEW c \in Chips, BeginNew(o, p, f, c)
        PROVE  Inv'
    <2>1. /\ Free(o)
          /\ spiChip' = [spiChip EXCEPT ![o] = c]
          /\ SPI_map[p] = NoChip
          /\ SPI_map' = [SPI_map EXCEPT ![p] = c]
          /\ devicePath[c] = NoPath
          /\ devicePath' = [devicePath EXCEPT ![c] = p]
          /\ defaultSpeed' = [defaultSpeed EXCEPT ![c] = f]
          /\ clock' = [clock EXCEPT ![c] = f]
          /\ UNCHANGED <<holder, threadVars>>
      BY <1>3 DEF BeginNew, SetPath
    <2>2. \A x \in Objects : x # o => spiChip'[x] = spiChip[x]
      BY <1>0, <2>1 DEF TypeOK
    <2>3. \A d \in Chips : devicePath[d] # NoPath =>
             clock'[d] = clock[d] /\ defaultSpeed'[d] = defaultSpeed[d]
      BY <1>0, <2>1 DEF TypeOK
    <2>4. LockHeld' /\ NoForeignSpeed'
      BY <1>0, <2>1, <2>2, <2>3, ObjectSteps DEF TypeOK
    <2>5. p # NoPath
      BY SPIBusAssumption DEF SPIBusAssumption
    <2>6. OneChipPerPath'
      <3>1. \A q \in Paths : SPI_map'[q] \in Chips =>
               devicePath'[SPI_map'[q]] = q
        BY <1>0, <2>1, <2>5, SPIBusAssumption
           DEF OneChipPerPath, TypeOK, SPIBusAssumption
      <3>2. \A d \in Chips : devicePath'[d] # NoPath =>
               SPI_map'[devicePath'[d]] = d
        BY <1>0, <2>1, <2>5, SPIBusAssumption
           DEF OneChipPerPath, TypeOK, SPIBusAssumption
      <3>3. \A x \in Objects : spiChip'[x] \in Chips =>
               devicePath'[spiChip'[x]] # NoPath
        BY <1>0, <2>1, <2>5 DEF OneChipPerPath, TypeOK
      <3> QED  BY <3>1, <3>2, <3>3 DEF OneChipPerPath
    <2>7. NeverProgrammed'
      BY <1>0, <2>1 DEF NeverProgrammed, TypeOK
    <2> QED  BY <1>0, <2>4, <2>6, <2>7 DEF Inv
  <1>4. ASSUME NEW o \in Objects, End(o) PROVE Inv'
    <2>1. /\ Free(o)
          /\ spiChip' = [spiChip EXCEPT ![o] = NoChip]
          /\ UNCHANGED <<SPI_map, devicePath, defaultSpeed, clock, holder,
                         threadVars>>
      BY <1>4 DEF End
    <2>2. LockHeld' /\ NoForeignSpeed'
      BY <1>0, <2>1, ObjectSteps DEF TypeOK
    <2>3. OneChipPerPath' /\ NeverProgrammed'
      BY <1>0, <2>1, SPIBusAssumption
         DEF OneChipPerPath, NeverProgrammed, TypeOK, SPIBusAssumption
    <2> QED  BY <1>0, <2>2, <2>3 DEF Inv
  <1>5. ASSUME NEW t \in Threads, NEW o \in Objects, NEW f \in Speeds,
               BeginTransaction(t, o, f)
        PROVE  Inv'
    <2>1. /\ object'[t] = o /\ speed'[t] = f
          /\ pc'[t] = IF spiChip[o] \in Chips THEN "locking" ELSE "active"
          /\ \A u \in Threads : u # t => /\ object'[u] = object[u]
                                         /\ speed'[u] = speed[u]
                                         /\ pc'[u] = pc[u]
          /\ UNCHANGED <<objectVars, clock, holder>>
      BY <1>0, <1>5 DEF BeginTransaction, TypeOK
    <2>2. /\ ChipOf(t)' = spiChip[o]
          /\ \A u \in Threads : u # t => ChipOf(u)' = ChipOf(u)
      BY <2>1 DEF ChipOf, objectVars
    <2>3. ~Holding(t)'
      BY <2>1, <2>2 DEF Holding
    <2>4. LockHeld'
      BY <1>0, <2>1, <2>2, <2>3 DEF LockHeld, Holding
    <2>5. NoForeignSpeed'
      BY <1>0, <2>1, <2>2 DEF NoForeignSpeed, objectVars
    <2>6. OneChipPerPath' /\ NeverProgrammed'
      BY <1>0, <2>1 DEF OneChipPerPath, NeverProgrammed, objectVars
    <2> QED  BY <1>0, <2>4, <2>5, <2>6 DEF Inv
  <1>6. ASSUME NEW t \in Threads, Lock(t) PROVE Inv'
    <2>1. /\ pc[t] = "locking"
          /\ holder[ChipOf(t)] = NoThread
          /\ holder' = [holder EXCEPT ![ChipOf(t)] = t]
          /\ pc' = [pc EXCEPT ![t] = "locked"]
          /\ UNCHANGED <<objectVars, clock, object, speed>>
      BY <1>6 DEF Lock
    <2>2. ChipOf(t) \in Chips
      BY <1>0, <2>1 DEF LockHeld
    <2>3. \A u \in Threads : Holding(u) => ChipOf(u) # ChipOf(t)
      BY <1>0, <2>1, SPIBusAssumption DEF LockHeld, SPIBusAssumption
    <2>4. LockHeld' /\ OneChipPerPath'
      BY <1>0, <2>1, <2>2, <2>3, LockSteps DEF TypeOK, Holding
    <2>5. NoForeignSpeed' /\ NeverProgrammed'
      BY <1>0, <2>1
         DEF NoForeignSpeed, NeverProgrammed, ChipOf, objectVars, TypeOK
    <2> QED  BY <1>0, <2>4, <2>5 DEF Inv
  <1>7. ASSUME NEW t \in Threads, SetSpeed(t) PROVE Inv'
    <2>1. /\ pc[t] = "locked"
          /\ Program(ChipOf(t), speed[t])
          /\ pc' = [pc EXCEPT ![t] = "active"]
          /\ UNCHANGED <<objectVars, holder, object, speed>>
      BY <1>7 DEF SetSpeed
    <2>2. ChipOf(t) \in Chips /\ Holding(t)
      BY <1>0, <2>1 DEF LockHeld, Holding
    <2>3. LockHeld' /\ OneChipPerPath'
      BY <1>0, <2>1, <2>2, LockSteps DEF TypeOK, LockHeld
    <2>4. \A u \in Threads : u # t /\ Holding(u) => ChipOf(u) # ChipOf(t)
      BY <1>0, <2>2 DEF LockHeld
    <2>5. /\ \A c \in Chips : c # ChipOf(t) => clock'[c] = clock[c]
          /\ clock'[ChipOf(t)] \in {speed[t], defaultSpeed[ChipOf(t)]}
          /\ NDebug => clock' = clock
      BY <1>0, <2>1, <2>2 DEF Program, TypeOK, NeverProgrammed
    <2>6. NoForeignSpeed'
      <3> SUFFICES ASSUME NEW u \in Threads,
                          pc'[u] = "active", ChipOf(u)' \in Chips
                   PROVE  clock'[ChipOf(u)'] \in
                              {speed'[u], defaultSpeed'[ChipOf(u)']}
        BY DEF NoForeignSpeed
      <3>1. ChipOf(u)' = ChipOf(u) /\ speed'[u] = speed[u]
            /\ defaultSpeed' = defaultSpeed
        BY <2>1 DEF ChipOf, objectVars
      <3>2. CASE u = t
        BY <2>5, <3>1, <3>2
      <3>3. CASE u # t
        <4>1. pc[u] = "active" /\ Holding(u)
          BY <1>0, <2>1, <3>1, <3>3 DEF Holding, TypeOK
        <4> QED  BY <1>0, <2>4, <2>5, <3>1, <3>3, <4>1 DEF NoForeignSpeed
      <3> QED  BY <3>2, <3>3
    <2>7. NeverProgrammed'
      BY <1>0, <2>1, <2>5 DEF NeverProgrammed, objectVars
    <2> QED  BY <1>0, <2>3, <2>6, <2>7 DEF Inv
  <1>8. ASSUME NEW t \in Threads, SetSpeedThrows(t) \/ EndTransaction(t)
        PROVE  Inv'
    <2>1. /\ pc'[t] \in {"idle", "unlocked"}
          /\ pc'[t] = "unlocked" => ChipOf(t) \in Chips /\ object' = object
          /\ \A u \in Threads : u # t => /\ pc'[u] = pc[u]
                                         /\ object'[u] = object[u]
                                         /\ speed'[u] = speed[u]
          /\ holder' = holder \/ /\ Holding(t)
                                 /\ holder' = [holder EXCEPT ![ChipOf(t)] =
                                                   NoThread]
          /\ UNCHANGED <<objectVars, clock>>
      BY <1>0, <1>8
         DEF SetSpeedThrows, EndTransaction, Leave, Holding, TypeOK
    <2>2. \A u \in Threads : u # t /\ Holding(u) =>
             holder'[ChipOf(u)] = holder[ChipOf(u)]
      BY <1>0, <2>1 DEF LockHeld, TypeOK, Holding
    <2>3. LockHeld' /\ OneChipPerPath'
      BY <1>0, <2>1, <2>2, LockSteps DEF TypeOK
    <2>4. NoForeignSpeed' /\ NeverProgrammed'
      BY <1>0, <2>1
         DEF NoForeignSpeed, NeverProgrammed, ChipOf, objectVars
    <2> QED  BY <1>0, <2>3, <2>4 DEF Inv
  <1>9. ASSUME NEW t \in Threads, RestoreSpeed(t) PROVE Inv'
    <2>1. /\ pc[t] = "unlocked"
          /\ \/ Program(ChipOf(t), defaultSpeed[ChipOf(t)])
             \/ clock' = clock
          /\ pc'[t] = "idle"
          /\ \A u \in Threads : u # t => /\ pc'[u] = pc[u]
                                         /\ object'[u] = object[u]
                                         /\ speed'[u] = speed[u]
          /\ UNCHANGED <<objectVars, holder>>
      BY <1>0, <1>9 DEF RestoreSpeed, Leave, TypeOK
    <2>2. LockHeld' /\ OneChipPerPath'
      BY <1>0, <2>1, LockSteps DEF TypeOK
    <2>3. \A c \in Chips : clock'[c] \in {clock[c], defaultSpeed[c]}
      BY <1>0, <2>1 DEF Program, TypeOK
    <2>4. NDebug => clock' = clock
      BY <2>1 DEF Program
    <2>5. NeverProgrammed'
      BY <1>0, <2>1, <2>4 DEF NeverProgrammed, objectVars
    <2>6. NoForeignSpeed'
      <3> SUFFICES ASSUME NEW u \in Threads,
                          pc'[u] = "active", ChipOf(u)' \in Chips
                   PROVE  clock'[ChipOf(u)'] \in
                              {speed'[u], defaultSpeed'[ChipOf(u)']}
        BY DEF NoForeignSpeed
      <3>1. /\ u # t /\ pc[u] = "active" /\ ChipOf(u)' = ChipOf(u)
            /\ speed'[u] = speed[u] /\ defaultSpeed' = defaultSpeed
        BY <2>1 DEF ChipOf, objectVars
      <3> QED  BY <1>0, <2>3, <3>1 DEF NoForeignSpeed
    <2> QED  BY <1>0, <2>2, <2>5, <2>6 DEF Inv
  <1> QED
    BY <1>1, <1>2, <1>3, <1>4, <1>5, <1>6, <1>7, <1>8, <1>9 DEF Next

\* The invariant holds in every reachable state.
THEOREM Invariance == Spec => []Inv
  BY InvInit, InvStep, PTL DEF Spec

\* Every variable keeps its type.
THEOREM TypeCorrect == Spec => []TypeOK
  BY Invariance, PTL DEF Inv

\* Two threads are never in transactions on one device path at a time.
THEOREM Exclusion == Spec => []MutualExclusion
  <1>1. Inv => MutualExclusion
    <2> SUFFICES ASSUME Inv, NEW t \in Threads, NEW u \in Threads,
                        Holding(t), Holding(u),
                        devicePath[ChipOf(t)] = devicePath[ChipOf(u)]
                 PROVE  t = u
      BY DEF MutualExclusion
    <2>1. /\ ChipOf(t) \in Chips /\ devicePath[ChipOf(t)] # NoPath
          /\ ChipOf(u) \in Chips /\ devicePath[ChipOf(u)] # NoPath
      BY DEF Inv, TypeOK, Holding, ChipOf, OneChipPerPath
    <2>2. ChipOf(t) = ChipOf(u)
      BY <2>1 DEF Inv, OneChipPerPath
    <2> QED  BY <2>2 DEF Inv, LockHeld
  <1> QED  BY <1>1, Invariance, PTL

\* A transaction never runs at the speed another transaction asked for.
THEOREM SpeedNeverForeign == Spec => []NoForeignSpeed
  BY Invariance, PTL DEF Inv

\* A step of a thread keeps the witness of WillRestore unless it restores.
LEMMA WillRestoreStep == Inv /\ WillRestore /\ [Next]_vars => WillRestore'
  <1> SUFFICES ASSUME Inv, WillRestore, [Next]_vars, ~ioctlFails',
                      NEW c \in Chips, clock'[c] # defaultSpeed'[c]
               PROVE  \E t \in Threads : /\ pc'[t] \in {"active", "unlocked"}
                                         /\ ChipOf(t)' = c
    BY DEF WillRestore
  <1>0. TypeOK /\ LockHeld /\ OneChipPerPath
    BY DEF Inv
  <1>1. CASE UNCHANGED vars
    BY <1>1 DEF vars, objectVars, threadVars, WillRestore, ChipOf
  <1>2. ASSUME NEW o \in Objects,
               \/ \E p \in Paths :
                     \/ BeginOpen(o, p) \/ BeginShared(o, p) \/ BeginSim(o, p)
                     \/ \E f \in Speeds, d \in Chips : BeginNew(o, p, f, d)
               \/ End(o)
        PROVE  \E t \in Threads : /\ pc'[t] \in {"active", "unlocked"}
                                  /\ ChipOf(t)' = c
    <2>1. /\ Free(o) /\ UNCHANGED <<ioctlFails, threadVars>>
          /\ \A x \in Objects : x # o => spiChip'[x] = spiChip[x]
      BY <1>0, <1>2 DEF BeginOpen, BeginShared, BeginSim, BeginNew, End,
                        SetPath, TypeOK
    <2>2. clock[c] # defaultSpeed[c]
      BY <1>0, <1>2 DEF BeginOpen, BeginShared, BeginSim, BeginNew, End,
                        SetPath, TypeOK
    <2>3. PICK t \in Threads : pc[t] \in {"active", "unlocked"} /\ ChipOf(t) = c
      BY <2>1, <2>2 DEF WillRestore
    <2>4. object[t] \in Objects /\ object[t] # o
      BY <1>0, <2>1, <2>3 DEF Free, TypeOK
    <2> QED  BY <2>1, <2>3, <2>4 DEF ChipOf, threadVars
  <1>3. ASSUME NEW t \in Threads,
               \/ \E o \in Objects, f \in Speeds : BeginTransaction(t, o, f)
               \/ Lock(t) \/ SetSpeedThrows(t)
        PROVE  \E u \in Threads : /\ pc'[u] \in {"active", "unlocked"}
                                  /\ ChipOf(u)' = c
    <2>1. /\ pc[t] \notin {"active", "unlocked"}
          /\ \A u \in Threads : u # t =>
                pc'[u] = pc[u] /\ object'[u] = object[u]
          /\ UNCHANGED <<objectVars, clock>>
      BY <1>0, <1>3 DEF BeginTransaction, Lock, SetSpeedThrows, Leave, TypeOK
    <2>2. PICK u \in Threads : pc[u] \in {"active", "unlocked"} /\ ChipOf(u) = c
      BY <2>1 DEF WillRestore, objectVars
    <2> QED  BY <2>1, <2>2 DEF ChipOf, objectVars
  <1>4. ASSUME NEW t \in Threads, SetSpeed(t)
        PROVE  \E u \in Threads : /\ pc'[u] \in {"active", "unlocked"}
                                  /\ ChipOf(u)' = c
    <2>1. /\ pc' = [pc EXCEPT ![t] = "active"] /\ pc[t] = "locked"
          /\ Program(ChipOf(t), speed[t])
          /\ UNCHANGED <<objectVars, object>>
      BY <1>4 DEF SetSpeed
    <2>2. CASE ChipOf(t) = c
      BY <1>0, <2>1, <2>2 DEF TypeOK, ChipOf, objectVars
    <2>3. CASE ChipOf(t) # c
      <3>1. clock[c] # defaultSpeed[c] /\ ~ioctlFails
        BY <1>0, <2>1, <2>3 DEF Program, TypeOK, objectVars
      <3>2. PICK u \in Threads :
               pc[u] \in {"active", "unlocked"} /\ ChipOf(u) = c
        BY <3>1 DEF WillRestore
      <3> QED  BY <1>0, <2>1, <3>2 DEF TypeOK, ChipOf, objectVars
    <2> QED  BY <2>2, <2>3
  <1>5. ASSUME NEW t \in Threads, EndTransaction(t)
        PROVE  \E u \in Threads : /\ pc'[u] \in {"active", "unlocked"}
                                  /\ ChipOf(u)' = c
    <2>1. UNCHANGED <<objectVars, clock>>
      BY <1>5 DEF EndTransaction
    <2>2. PICK u \in Threads : pc[u] \in {"active", "unlocked"} /\ ChipOf(u) = c
      BY <2>1 DEF WillRestore, objectVars
    <2>3. pc'[u] \in {"active", "unlocked"} /\ object'[u] = object[u]
      BY <1>0, <1>5, <2>2 DEF EndTransaction, Leave, TypeOK
    <2> QED  BY <2>1, <2>2, <2>3 DEF ChipOf, objectVars
  <1>6. ASSUME NEW t \in Threads, RestoreSpeed(t)
        PROVE  \E u \in Threads : /\ pc'[u] \in {"active", "unlocked"}
                                  /\ ChipOf(u)' = c
    <2>1. /\ pc[t] = "unlocked"
          /\ Program(ChipOf(t), defaultSpeed[ChipOf(t)])
          /\ \A u \in Threads : u # t =>
                pc'[u] = pc[u] /\ object'[u] = object[u]
          /\ UNCHANGED objectVars
      BY <1>0, <1>6 DEF RestoreSpeed, Leave, TypeOK, objectVars
    <2>2. clock[c] # defaultSpeed[c] /\ ~ioctlFails
      BY <1>0, <2>1 DEF Program, TypeOK, objectVars
    <2>3. PICK u \in Threads : pc[u] \in {"active", "unlocked"} /\ ChipOf(u) = c
      BY <2>2 DEF WillRestore
    <2>4. CASE u # t
      BY <2>1, <2>3, <2>4 DEF ChipOf, objectVars
    <2>5. CASE u = t
      <3>1. NDebug
        BY <1>0, <2>1, <2>3, <2>5 DEF Program, TypeOK, objectVars
      <3> QED  BY <2>2, <3>1 DEF Inv, NeverProgrammed
    <2> QED  BY <2>4, <2>5
  <1> QED
    BY <1>1, <1>2, <1>3, <1>4, <1>5, <1>6 DEF Next

\* A device no thread uses is at its default speed, if no ioctl fails.
THEOREM SpeedRestored == Spec => []RestoredWhenQuiet
  <1>1. Init => WillRestore
    BY DEF Init, WillRestore
  <1>2. WillRestore => RestoredWhenQuiet
    BY DEF WillRestore, RestoredWhenQuiet
  <1> QED  BY <1>1, <1>2, Invariance, WillRestoreStep, PTL DEF Spec
=============================================================================
